---- MODULE Spec2Model ----
(***************************************************************************)
(* A model of the clewcrew expert agents (src/src/clewcrew_agents).        *)
(*                                                                         *)
(* Every expert is stateless: the state of the system is the analysed      *)
(* project (the files the experts read), the arguments of the call being   *)
(* made and the value the call returned.                                   *)
(*                                                                         *)
(* Numbers.  Python floats are modelled as exact integers:                 *)
(*   - a confidence c is the integer 1000 * c  (0.9 is 900, 0.3 is 300);   *)
(*   - a quality score s is the integer s      (95.0 is 95).               *)
(* The rounding of binary floating point is not modelled (Python computes  *)
(* 0.8 - 0.2 - 0.2 - 0.1 as 0.30000000000000004, the model as 300).        *)
(* Dictionaries are records; an absent key is an absent field, read with   *)
(* DictGet as dict.get reads it.                                           *)
(***************************************************************************)
EXTENDS Integers, Sequences, FiniteSets, TLC

VARIABLES
    expert,     \* the concrete expert the caller holds ("none": only the base class)
    project,    \* the analysed project: the artifacts on disk and what they contain
    findings,   \* the findings list the caller passes to calculate_confidence
    changes,    \* the change list the caller passes to assess_quality_impact
    ret,        \* the last call: its name, its arguments and what it returned
    prev        \* the call before it (NoCall when there is none)

vars == <<expert, project, findings, changes, ret, prev>>

----------------------------------------------------------------------------
(* Bounds of the model *)

\* longest findings list handed to calculate_confidence
MaxFindings == 5

\* longest change list handed to assess_quality_impact
MaxChanges == 3

\* most files and directories a project holds
MaxArtifacts == 3

\* most pieces of content the files of a project hold together
MaxFacts == 4

\* longest issue list handed to suggest_fixes
MaxIssues == 2

----------------------------------------------------------------------------
(* Python helpers *)

\* Python's None
None == "None"

\* dict.get(key, default)
DictGet(d, key, default) == IF key \in DOMAIN d THEN d[key] ELSE default

Max(a, b) == IF a >= b THEN a ELSE b
Min(a, b) == IF a <= b THEN a ELSE b

\* len([f for f in fs if f.get("priority") == p])
CountPriority(fs, p) ==
    Len(SelectSeq(fs, LAMBDA f : DictGet(f, "priority", None) = p))

\* all sequences over S of length at most n
SeqsUpTo(S, n) == UNION {[1..k -> S] : k \in 0..n}

\* the record of "no call yet"
NoCall == [op |-> "none"]

\* the project of an empty directory
EmptyProject == [exists |-> {}, facts |-> {}]

----------------------------------------------------------------------------
(* base_expert.py *)

Priorities == {"low", "medium", "high", "critical"}

\* calculate_confidence without the final clamp to [0.0, 1.0]
calculate_confidence_unclamped(fs) ==
    IF fs = <<>>
    THEN 900
    ELSE 800 - (CountPriority(fs, "high") * 100)
             - (CountPriority(fs, "critical") * 200)

\* calculate_confidence with the two penalties exchanged
calculate_confidence_swapped(fs) ==
    IF fs = <<>>
    THEN 900
    ELSE Max(0, Min(1000,
             800 - (CountPriority(fs, "high") * 200)
                 - (CountPriority(fs, "critical") * 100)))

\* calculate_confidence counting medium findings among the high ones
calculate_confidence_medium(fs) ==
    IF fs = <<>>
    THEN 900
    ELSE Max(0, Min(1000,
             800 - ((CountPriority(fs, "high") + CountPriority(fs, "medium")) * 100)
                 - (CountPriority(fs, "critical") * 200)))

\* calculate_confidence adding the high penalty instead of subtracting it
calculate_confidence_plus(fs) ==
    IF fs = <<>>
    THEN 900
    ELSE Max(0, Min(1000,
             800 + (CountPriority(fs, "high") * 100)
                 - (CountPriority(fs, "critical") * 200)))

\* calculate_confidence without the shortcut for the empty list
calculate_confidence_no_shortcut(fs) ==
    Max(0, Min(1000, 800 - (CountPriority(fs, "high") * 100)
                         - (CountPriority(fs, "critical") * 200)))

\* calculate_confidence penalising a high finding only at the head of the list
calculate_confidence_head(fs) ==
    IF fs = <<>>
    THEN 900
    ELSE Max(0, Min(1000,
             800 - (IF DictGet(fs[1], "priority", None) = "high" THEN 100 ELSE 0)
                 - (CountPriority(fs, "critical") * 200)))

\* BaseExpert.calculate_confidence; the result is in thousandths
calculate_confidence(fs) ==
    IF fs = <<>>
    THEN 900                                  \* 0.9: no issues found
    ELSE LET base_confidence == 800           \* 0.8
             high_priority == CountPriority(fs, "high")
             critical_priority == CountPriority(fs, "critical")
             confidence == base_confidence - (high_priority * 100)
                                           - (critical_priority * 200)
         IN  Max(0, Min(1000, confidence))

----------------------------------------------------------------------------
(* The caller of calculate_confidence: it computes the confidence of a     *)
(* findings list, and may then append one more finding and compute again.  *)

\* the findings the caller builds lists from: one of each priority, and one
\* without a priority key
SampleFindings ==
    {[type |-> "issue", priority |-> p] : p \in Priorities} \cup {[type |-> "issue"]}

InitConfidence ==
    /\ expert = "none"
    /\ project = EmptyProject
    /\ findings \in SeqsUpTo(SampleFindings, MaxFindings)
    /\ changes = <<>>
    /\ ret = NoCall
    /\ prev = NoCall

CalculateConfidence ==
    /\ ret.op = "none"
    /\ ret' = [op |-> "calculate_confidence", findings |-> findings,
               confidence |-> calculate_confidence(findings)]
    /\ UNCHANGED <<expert, project, findings, changes, prev>>

AppendAndCalculate(f) ==
    /\ ret.op = "calculate_confidence"
    /\ Len(findings) < MaxFindings
    /\ findings' = Append(findings, f)
    /\ prev' = ret
    /\ ret' = [op |-> "calculate_confidence", findings |-> findings',
               confidence |-> calculate_confidence(findings')]
    /\ UNCHANGED <<expert, project, changes>>

NextConfidence ==
    \/ CalculateConfidence
    \/ \E f \in SampleFindings : AppendAndCalculate(f)

SpecConfidence == InitConfidence /\ [][NextConfidence]_vars

----------------------------------------------------------------------------
(* Texts.  A text (the content of a change or of a file) is modelled by    *)
(* its number of lines, len(text.split("\n")), and by the set of the       *)
(* substrings of interest that occur in it, written as they occur.         *)

\* the empty string: "".split("\n") is [""]
EmptyText == [lines |-> 1, words |-> {}]

\* str.lower on one occurring substring
LowerWord(w) ==
    CASE w = "PASSWORD" -> "password"
      [] w = "ERROR" -> "error"
      [] w = "Failed" -> "failed"
      [] w = "MCP" -> "mcp"
      [] w = "TODO" -> "todo"
      [] w = "FIXME" -> "fixme"
      [] w = "Resources" -> "resources"
      [] OTHER -> w

\* a is a substring of the word b
IsSubstring(a, b) == a = b \/ <<a, b>> \in {<<"cov", "coverage">>}

\* text.lower()
Lower(text) == [lines |-> text.lines, words |-> {LowerWord(w) : w \in text.words}]

\* pattern in text
Contains(text, pattern) == \E w \in text.words : IsSubstring(pattern, w)

\* any(pattern in text for pattern in patterns)
ContainsAny(text, patterns) == \E pattern \in patterns : Contains(text, pattern)

----------------------------------------------------------------------------
(* assess_quality_impact *)

Experts ==
    {"security", "code_quality", "devops", "test", "architecture", "build", "model", "mcp"}

\* the experts whose assess_quality_impact matches the type tag of a change
TypeBasedExperts == {"devops", "test", "architecture", "build", "model", "mcp"}

\* the loop and the final escalation shared, line for line, by the six
\* type-based experts; risky and beneficial are the expert's two type lists.
\* A risk statement f"Risk: {change_type} ..." is the pair <<"Risk", change_type>>.
TypedImpact(cs, risky, beneficial) ==
    LET step(acc, change) ==
            LET change_type == DictGet(change, "type", "unknown")
            IN  IF change_type \in risky
                THEN [risks |-> Append(acc.risks, <<"Risk", change_type>>),
                      risk_level |-> "medium"]
                ELSE IF change_type \in beneficial
                THEN [acc EXCEPT !.risks = Append(acc.risks, <<"Benefit", change_type>>)]
                ELSE acc
        loop[i \in 0..Len(cs)] ==
            IF i = 0 THEN [risks |-> <<>>, risk_level |-> "low"]
            ELSE step(loop[i - 1], cs[i])
        after == loop[Len(cs)]
    IN  [risk_level |-> IF after.risks # <<>> THEN "high" ELSE after.risk_level,
         risks |-> after.risks]

TestExpert_risk_types == {"test_removal", "test_config_change", "coverage_threshold_change"}
TestExpert_benefit_types == {"test_addition", "test_improvement"}
TestExpert_assess_quality_impact(cs) ==
    LET assessed == TypedImpact(cs, TestExpert_risk_types, TestExpert_benefit_types)
    IN  [quality_impact |-> "test_quality_assessment",
         risk_level |-> assessed.risk_level,
         test_quality_risks |-> assessed.risks,
         recommendations |-> <<"Review changes for test coverage impact",
                               "Ensure tests remain comprehensive after changes",
                               "Consider adding tests for new functionality",
                               "Maintain test configuration consistency">>]

ArchitectureExpert_risk_types == {"arch_change", "structure_change", "dependency_change"}
ArchitectureExpert_benefit_types == {"arch_improvement", "structure_improvement"}
ArchitectureExpert_assess_quality_impact(cs) ==
    LET assessed == TypedImpact(cs, ArchitectureExpert_risk_types, ArchitectureExpert_benefit_types)
    IN  [quality_impact |-> "architecture_quality_assessment",
         risk_level |-> assessed.risk_level,
         arch_quality_risks |-> assessed.risks,
         recommendations |-> <<"Review changes for architectural impact",
                               "Ensure system structure remains coherent",
                               "Update architecture documentation as needed",
                               "Maintain architectural principles and patterns">>]

BuildExpert_risk_types == {"build_config_change", "dependency_change", "tool_change"}
BuildExpert_benefit_types == {"build_improvement", "tool_improvement"}
BuildExpert_assess_quality_impact(cs) ==
    LET assessed == TypedImpact(cs, BuildExpert_risk_types, BuildExpert_benefit_types)
    IN  [quality_impact |-> "build_quality_assessment",
         risk_level |-> assessed.risk_level,
         build_quality_risks |-> assessed.risks,
         recommendations |-> <<"Review changes for build pipeline impact",
                               "Ensure build configuration remains stable",
                               "Test build changes in isolated environment",
                               "Maintain build automation and monitoring">>]

DevOpsExpert_risk_types == {"ci_config_change", "deployment_change", "infrastructure_change"}
DevOpsExpert_benefit_types == {"ci_improvement", "deployment_improvement"}
DevOpsExpert_assess_quality_impact(cs) ==
    LET assessed == TypedImpact(cs, DevOpsExpert_risk_types, DevOpsExpert_benefit_types)
    IN  [quality_impact |-> "devops_quality_assessment",
         risk_level |-> assessed.risk_level,
         devops_quality_risks |-> assessed.risks,
         recommendations |-> <<"Review changes for deployment pipeline impact",
                               "Ensure CI/CD configuration remains stable",
                               "Test infrastructure changes in staging environment",
                               "Maintain deployment automation and monitoring">>]

ModelExpert_risk_types == {"model_config_change", "hyperparameter_change", "architecture_change"}
ModelExpert_benefit_types == {"model_improvement", "config_improvement"}
ModelExpert_assess_quality_impact(cs) ==
    LET assessed == TypedImpact(cs, ModelExpert_risk_types, ModelExpert_benefit_types)
    IN  [quality_impact |-> "model_quality_assessment",
         risk_level |-> assessed.risk_level,
         model_quality_risks |-> assessed.risks,
         recommendations |-> <<"Review changes for model performance impact",
                               "Ensure model configuration remains stable",
                               "Test model changes with validation data",
                               "Maintain model monitoring and evaluation">>]

MCPExpert_risk_types == {"mcp_config_change", "server_change", "client_change"}
MCPExpert_benefit_types == {"mcp_improvement", "config_improvement"}
MCPExpert_assess_quality_impact(cs) ==
    LET assessed == TypedImpact(cs, MCPExpert_risk_types, MCPExpert_benefit_types)
    IN  [quality_impact |-> "mcp_quality_assessment",
         risk_level |-> assessed.risk_level,
         mcp_quality_risks |-> assessed.risks,
         recommendations |-> <<"Review changes for MCP connectivity impact",
                               "Ensure MCP configuration remains stable",
                               "Test MCP changes in isolated environment",
                               "Maintain MCP monitoring and health checks">>]

SecurityExpert_credential_words == {"password", "secret", "key", "token"}
SecurityExpert_injection_words == {"subprocess", "os.system", "eval", "exec"}

\* the variant that subscripts change["content"] where the code calls
\* change.get("content", ""): a change without content raises KeyError
SecurityExpert_assess_quality_impact_subscript(cs) ==
    IF \E i \in DOMAIN cs : "content" \notin DOMAIN cs[i]
    THEN [outcome |-> "raise", exception |-> "KeyError"]
    ELSE [quality_impact |-> "security_assessment",
          risk_level |-> "low",
          security_risks |-> <<>>,
          recommendations |-> <<"Review all changes for security implications",
                                "Implement security code review process",
                                "Use automated security scanning tools">>]

SecurityExpert_assess_quality_impact(cs) ==
    LET step(acc, change) ==
            LET change_content == DictGet(change, "content", EmptyText)
                a1 == IF ContainsAny(Lower(change_content), SecurityExpert_credential_words)
                      THEN [risks |-> Append(acc.risks, "Potential credential exposure in changes"),
                            risk_level |-> "high"]
                      ELSE acc
            IN  IF ContainsAny(Lower(change_content), SecurityExpert_injection_words)
                THEN [risks |-> Append(a1.risks, "Potential command injection risk in changes"),
                      risk_level |-> "critical"]
                ELSE a1
        loop[i \in 0..Len(cs)] ==
            IF i = 0 THEN [risks |-> <<>>, risk_level |-> "low"]
            ELSE step(loop[i - 1], cs[i])
        after == loop[Len(cs)]
    IN  [quality_impact |-> "security_assessment",
         risk_level |-> after.risk_level,
         security_risks |-> after.risks,
         recommendations |-> <<"Review all changes for security implications",
                               "Implement security code review process",
                               "Use automated security scanning tools">>]

CodeQualityExpert_assess_quality_impact(cs) ==
    LET step(acc, change) ==
            LET change_content == DictGet(change, "content", EmptyText)
                a1 == IF change_content.lines > 10
                      THEN [risks |-> Append(acc.risks, "Large change that may introduce complexity"),
                            risk_level |-> "medium"]
                      ELSE acc
                a2 == IF Contains(change_content, "TODO") \/ Contains(change_content, "FIXME")
                      THEN [risks |-> Append(a1.risks, "Change contains TODO/FIXME comments"),
                            risk_level |-> "low"]
                      ELSE a1
            IN  IF Contains(change_content, "import *")
                THEN [risks |-> Append(a2.risks, "Change uses wildcard imports"),
                      risk_level |-> "medium"]
                ELSE a2
        loop[i \in 0..Len(cs)] ==
            IF i = 0 THEN [risks |-> <<>>, risk_level |-> "low"]
            ELSE step(loop[i - 1], cs[i])
        after == loop[Len(cs)]
    IN  [quality_impact |-> "code_quality_assessment",
         risk_level |-> after.risk_level,
         quality_risks |-> after.risks,
         recommendations |-> <<"Review changes for code quality implications",
                               "Ensure changes follow project coding standards",
                               "Consider breaking large changes into smaller commits">>]

\* the method the expert object e dispatches to
assess_quality_impact(e, cs) ==
    CASE e = "security" -> SecurityExpert_assess_quality_impact(cs)
      [] e = "code_quality" -> CodeQualityExpert_assess_quality_impact(cs)
      [] e = "devops" -> DevOpsExpert_assess_quality_impact(cs)
      [] e = "test" -> TestExpert_assess_quality_impact(cs)
      [] e = "architecture" -> ArchitectureExpert_assess_quality_impact(cs)
      [] e = "build" -> BuildExpert_assess_quality_impact(cs)
      [] e = "model" -> ModelExpert_assess_quality_impact(cs)
      [] e = "mcp" -> MCPExpert_assess_quality_impact(cs)

RiskTypes(e) ==
    CASE e = "devops" -> DevOpsExpert_risk_types
      [] e = "test" -> TestExpert_risk_types
      [] e = "architecture" -> ArchitectureExpert_risk_types
      [] e = "build" -> BuildExpert_risk_types
      [] e = "model" -> ModelExpert_risk_types
      [] e = "mcp" -> MCPExpert_risk_types
      [] OTHER -> {}

BenefitTypes(e) ==
    CASE e = "devops" -> DevOpsExpert_benefit_types
      [] e = "test" -> TestExpert_benefit_types
      [] e = "architecture" -> ArchitectureExpert_benefit_types
      [] e = "build" -> BuildExpert_benefit_types
      [] e = "model" -> ModelExpert_benefit_types
      [] e = "mcp" -> MCPExpert_benefit_types
      [] OTHER -> {}

----------------------------------------------------------------------------
(* The caller of assess_quality_impact: it holds one expert and a list of  *)
(* proposed changes, and asks the expert for their impact.                 *)

\* the changes the caller builds lists from
SampleChanges(e) ==
    IF e \in TypeBasedExperts
    THEN {[type |-> t] : t \in RiskTypes(e) \cup BenefitTypes(e) \cup {"docs_change"}}
         \cup {[content |-> EmptyText]}
    ELSE IF e = "security"
    THEN {[type |-> "code_change", content |-> [lines |-> 1, words |-> {w}]] :
             w \in SecurityExpert_credential_words \cup SecurityExpert_injection_words
                   \cup {"PASSWORD", "print"}}
         \cup {[type |-> "code_change"],
               [type |-> "code_change", content |-> EmptyText],
               [type |-> "code_change", content |-> [lines |-> 2, words |-> {"token", "exec"}]]}
    ELSE {[type |-> "code_change", content |-> [lines |-> n, words |-> ws]] :
             n \in {1, 10, 11}, ws \in {{}, {"TODO"}, {"FIXME"}, {"import *"}, {"TODO", "import *"}}}
         \cup {[type |-> "code_change"]}

InitImpact ==
    /\ expert \in Experts
    /\ project = EmptyProject
    /\ findings = <<>>
    /\ changes \in SeqsUpTo(SampleChanges(expert), MaxChanges)
    /\ ret = NoCall
    /\ prev = NoCall

AssessQualityImpact ==
    /\ ret.op = "none"
    /\ ret' = [op |-> "assess_quality_impact", changes |-> changes,
               result |-> assess_quality_impact(expert, changes)]
    /\ UNCHANGED <<expert, project, findings, changes, prev>>

NextImpact == AssessQualityImpact

SpecImpact == InitImpact /\ [][NextImpact]_vars

----------------------------------------------------------------------------
(* The analysed project.                                                   *)
(*                                                                         *)
(* project.exists is the set of paths (relative to project_path) that      *)
(* exist, files and directories alike; project.facts is a set of pairs     *)
(* <<path, word>>: the file at path contains the word.  Words that start   *)
(* with # are not text but conditions of the file:                         *)
(*   #unreadable   opening or reading the file raises (OSError,            *)
(*                 UnicodeDecodeError)                                     *)
(*   #malformed    the file reads, and its parser (json, yaml, xml) raises *)
(*   #locked       the directory cannot be searched (mode 000, caller not  *)
(*                 root): stat of anything in it fails with EACCES         *)
(* Path("x/") is Path("x"): directory names are written without the slash. *)

\* path.exists()
Exists(p, path) == path \in p.exists

\* the words of the file at path
WordsOf(p, path) == {f[2] : f \in {g \in p.facts : g[1] = path}}

\* f.read() / path.read_text(), when it does not raise
ReadText(p, path) == [lines |-> 1, words |-> WordsOf(p, path)]

\* the directory dir exists and cannot be searched
Locked(p, dir) == dir \in p.exists /\ "#locked" \in WordsOf(p, dir)

\* open(path).read() raises
ReadRaises(p, path) == "#unreadable" \in WordsOf(p, path)

\* the parser raises on the content of the file
ParseRaises(p, path) == ReadRaises(p, path) \/ "#malformed" \in WordsOf(p, path)

\* the parent directory of a path ("" is project_path itself)
Parent(path) ==
    CASE path \in {".github/workflows", ".github/dependabot.yml"} -> ".github"
      [] path \in {".github/workflows/ci.yml", ".github/workflows/release.yml"}
             -> ".github/workflows"
      [] path = "ci/lint.yml" -> "ci"
      [] path = "htmlcov/index.html" -> "htmlcov"
      [] path \in {"tests/test_a.py", "tests/conftest.py"} -> "tests"
      [] path \in {"docs/architecture.md", "docs/guide.md"} -> "docs"
      [] path = "src/pkg" -> "src"
      [] path \in {"src/pkg/__init__.py", "src/pkg/mod.py"} -> "src/pkg"
      [] path = "pkg/util.py" -> "pkg"
      [] OTHER -> ""

\* path lies below the directory dir, at any depth
IsUnder(path, dir) ==
    \/ Parent(path) = dir
    \/ Parent(path) # "" /\ Parent(Parent(path)) = dir
    \/ Parent(path) # "" /\ Parent(Parent(path)) # "" /\ Parent(Parent(Parent(path))) = dir

\* path lies below a directory that cannot be searched
UnderLocked(p, path) == \E dir \in p.exists : Locked(p, dir) /\ IsUnder(path, dir)

\* path.exists() raises PermissionError: pathlib ignores ENOENT, ENOTDIR,
\* EBADF and ELOOP of the stat call, and re-raises every other OSError
StatRaises(p, path) == UnderLocked(p, path)

\* the last component of a path ends with the suffix (".py", ".yml", ...)
HasSuffix(path, suffix) ==
    CASE suffix = ".py" -> path \in {"main.py", "pkg/util.py", "tests/test_a.py", "tests/conftest.py",
                                     "src/pkg/__init__.py", "src/pkg/mod.py", "setup.py", "build.py"}
      [] suffix = ".yml" -> path \in {".github/workflows/ci.yml", ".github/workflows/release.yml",
                                      ".github/dependabot.yml", "ci/lint.yml", ".gitlab-ci.yml",
                                      "docker-compose.yml", "cloudformation.yml"}
      [] suffix = ".yaml" -> path \in {"docker-compose.yaml", "cloudformation.yaml", "kubernetes.yaml",
                                       "k8s.yaml", "helm-chart.yaml", "values.yaml", "model.yaml",
                                       "config.yaml", "mcp.yaml"}
      [] suffix = ".json" -> path \in {"flake8_report.json", "model_config.json", "hyperparameters.json",
                                       "model_params.json", "mcp_config.json", "mcp_server.json",
                                       "mcp_client.json"}
      [] suffix = ".xml" -> path \in {"coverage.xml", "test-results.xml", "junit.xml", "test-report.xml"}
      [] suffix = ".md" -> path \in {"README.md", "ARCHITECTURE.md", "DESIGN.md",
                                     "docs/architecture.md", "docs/guide.md"}
      [] OTHER -> FALSE

\* the directories of the model's paths
IsDir(path) ==
    path \in {".github", ".github/workflows", ".gitlab-ci", ".circleci", "ci", "jenkins", ".azure",
              "htmlcov", "logs", "tests", "test", "docs", "adr", "decisions", "architecture",
              "design", "src", "src/pkg", "lib", "app", "core", "pkg", "build", "dist", "target",
              "models", "checkpoints", "outputs", "results", "mcp_logs", ".mcp_logs", "scripts"}

\* the order in which directory listings yield the paths of the model (the
\* order of os.scandir is the file system's; the model fixes one)
ListingOrder ==
    <<".github/dependabot.yml", ".github/workflows/ci.yml", ".github/workflows/release.yml",
      "ci/lint.yml", "docs/architecture.md", "docs/guide.md", "main.py", "pkg/util.py",
      "setup.py", "src/pkg/__init__.py", "src/pkg/mod.py", "tests/conftest.py",
      "tests/test_a.py">>

\* the eleven python files of the directory scripts, present together when
\* the directory carries the fact #11-python-files
ScriptFiles ==
    <<"scripts/s01.py", "scripts/s02.py", "scripts/s03.py", "scripts/s04.py",
      "scripts/s05.py", "scripts/s06.py", "scripts/s07.py", "scripts/s08.py",
      "scripts/s09.py", "scripts/s10.py", "scripts/s11.py">>

\* list(dir.rglob("*" + suffix)); dir "" is project_path.  The scan skips
\* the directories it cannot list (pathlib swallows their PermissionError).
RGlob(p, dir, suffix) ==
    SelectSeq(ListingOrder, LAMBDA path : /\ Exists(p, path)
                                          /\ HasSuffix(path, suffix)
                                          /\ (dir = "" \/ IsUnder(path, dir))
                                          /\ ~UnderLocked(p, path))
    \o (IF /\ suffix = ".py" /\ dir \in {"", "scripts"}
            /\ Exists(p, "scripts") /\ "#11-python-files" \in WordsOf(p, "scripts")
            /\ ~Locked(p, "scripts")
         THEN ScriptFiles ELSE <<>>)

\* list(dir.rglob("*" + part + "*")): the paths below dir whose name holds part
RGlobName(p, dir, part) ==
    SelectSeq(ListingOrder,
              LAMBDA path : /\ Exists(p, path)
                            /\ IsUnder(path, dir)
                            /\ ~UnderLocked(p, path)
                            /\ <<path, part>> \in {<<"docs/architecture.md", "architecture">>})

\* [x for x in names if (project_path / x).exists()]
Existing(p, names) == SelectSeq(names, LAMBDA path : Exists(p, path))

\* the concatenation of a sequence of sequences
Flatten(ss) ==
    LET cat[i \in 0..Len(ss)] == IF i = 0 THEN <<>> ELSE cat[i - 1] \o ss[i]
    IN  cat[Len(ss)]

\* the issues a "for file in files: if file.exists(): try: ... except" loop
\* collects when the body appends issue for a file that reads
\* and satisfies the test
OneIssue(cond, issue) == IF cond THEN <<issue>> ELSE <<>>

----------------------------------------------------------------------------
(* build_expert.py *)

BuildExpert_find_existing_build_data(p) ==
    LET config_files == <<"pyproject.toml", "setup.py", "setup.cfg", "build.py",
                          "Makefile", "dockerfile", "Dockerfile">>
        output_dirs == <<"build", "dist", "*.egg-info", "target">>
    IN  Existing(p, config_files) \o Existing(p, output_dirs)

BuildExpert_analyze_build_config(p) ==
    LET pyproject_file == "pyproject.toml"
    IN  IF Exists(p, pyproject_file) /\ ~ReadRaises(p, pyproject_file)
        THEN OneIssue(~Contains(ReadText(p, pyproject_file), "build-system"),
                      [type |-> "build_config_issue", file |-> pyproject_file,
                       description |-> "Missing build-system configuration",
                       priority |-> "medium", tool |-> "build_config",
                       source |-> "existing_config"])
        ELSE <<>>

BuildExpert_analyze_build_logs(p) ==
    LET log_files == <<"build.log", "make.log", "docker.log">>
        one(log_path) ==
            IF Exists(p, log_path) /\ ~ReadRaises(p, log_path)
            THEN OneIssue(ContainsAny(Lower(ReadText(p, log_path)), {"error", "failed"}),
                          [type |-> "build_failure", file |-> log_path,
                           description |-> "Build log contains error or failure messages",
                           priority |-> "high", tool |-> "build_logs",
                           source |-> "existing_logs"])
            ELSE <<>>
    IN  Flatten([i \in DOMAIN log_files |-> one(log_files[i])])

BuildExpert_detect_hallucinations(p) ==
    LET build_data == BuildExpert_find_existing_build_data(p)
        hallucinations == BuildExpert_analyze_build_config(p) \o BuildExpert_analyze_build_logs(p)
    IN  IF build_data = <<>>
        THEN [hallucinations |-> <<>>,
              confidence |-> 300,
              recommendations |-> <<"No existing build configuration found",
                                    "Consider setting up proper build tools (poetry, pip, etc.)",
                                    "Implement automated build pipelines",
                                    "Set up build artifact management">>]
        ELSE [hallucinations |-> hallucinations,
              confidence |-> calculate_confidence(hallucinations),
              recommendations |->
                  IF hallucinations # <<>>
                  THEN <<"Review and fix build configuration issues",
                         "Address build failures identified in logs",
                         "Improve build automation and pipelines",
                         "Consider implementing build caching strategies">>
                  ELSE <<"Build configuration appears sound based on existing files",
                         "Continue monitoring build performance",
                         "Consider implementing advanced build strategies",
                         "Add build metrics and monitoring">>]

\* the metrics computed from the result of the detection pass and from what
\* the second discovery found
BuildExpert_quality_metrics(result, build_data) ==
    LET quality_score ==
            IF build_data = <<>> THEN 0
            ELSE IF result.hallucinations = <<>> THEN 88
            ELSE IF Len(result.hallucinations) <= 3 THEN 72
            ELSE IF Len(result.hallucinations) <= 7 THEN 52
            ELSE 22
    IN  [quality_score |-> quality_score,
         issues_found |-> Len(result.hallucinations),
         build_files_found |-> Len(build_data),
         recommendations |-> result.recommendations,
         confidence |-> result.confidence,
         total_issues |-> Len(result.hallucinations)]

BuildExpert_generate_quality_metrics(p) ==
    BuildExpert_quality_metrics(BuildExpert_detect_hallucinations(p), BuildExpert_find_existing_build_data(p))

----------------------------------------------------------------------------
(* model_expert.py *)

ModelExpert_find_existing_model_data(p) ==
    LET config_files == <<"model_config.json", "model.yaml", "config.yaml",
                          "hyperparameters.json", "model_params.json">>
        output_dirs == <<"models", "checkpoints", "outputs", "results">>
    IN  Existing(p, config_files) \o Existing(p, output_dirs)

ModelExpert_analyze_model_config(p) ==
    LET config_files == <<"model_config.json", "config.yaml">>
        one(config_file) ==
            IF Exists(p, config_file) /\ ~ReadRaises(p, config_file)
            THEN OneIssue(/\ Contains(Lower(ReadText(p, config_file)), "model")
                          /\ ~Contains(ReadText(p, config_file), "version"),
                          [type |-> "model_config_issue", file |-> config_file,
                           description |-> "Model configuration missing version information",
                           priority |-> "medium", tool |-> "model_config",
                           source |-> "existing_config"])
            ELSE <<>>
    IN  Flatten([i \in DOMAIN config_files |-> one(config_files[i])])

ModelExpert_analyze_model_outputs(p) ==
    LET output_files == <<"model.log", "training.log", "evaluation.log">>
        one(log_path) ==
            IF Exists(p, log_path) /\ ~ReadRaises(p, log_path)
            THEN OneIssue(ContainsAny(Lower(ReadText(p, log_path)), {"error", "failed"}),
                          [type |-> "model_failure", file |-> log_path,
                           description |-> "Model log contains error or failure messages",
                           priority |-> "high", tool |-> "model_logs",
                           source |-> "existing_logs"])
            ELSE <<>>
    IN  Flatten([i \in DOMAIN output_files |-> one(output_files[i])])

ModelExpert_detect_hallucinations(p) ==
    LET model_data == ModelExpert_find_existing_model_data(p)
        hallucinations == ModelExpert_analyze_model_config(p) \o ModelExpert_analyze_model_outputs(p)
    IN  IF model_data = <<>>
        THEN [hallucinations |-> <<>>,
              confidence |-> 300,
              recommendations |-> <<"No existing model configuration found",
                                    "Consider documenting model architecture and parameters",
                                    "Implement model versioning and tracking",
                                    "Set up model performance monitoring">>]
        ELSE [hallucinations |-> hallucinations,
              confidence |-> calculate_confidence(hallucinations),
              recommendations |->
                  IF hallucinations # <<>>
                  THEN <<"Review and fix model configuration issues",
                         "Address model performance issues identified in outputs",
                         "Improve model documentation and versioning",
                         "Consider implementing model monitoring and alerting">>
                  ELSE <<"Model configuration appears sound based on existing files",
                         "Continue monitoring model performance",
                         "Consider implementing advanced model strategies",
                         "Add comprehensive model evaluation metrics">>]

\* the metrics computed from the result of the detection pass and from what
\* the second discovery found
ModelExpert_quality_metrics(result, model_data) ==
    LET quality_score ==
            IF model_data = <<>> THEN 0
            ELSE IF result.hallucinations = <<>> THEN 92
            ELSE IF Len(result.hallucinations) <= 3 THEN 78
            ELSE IF Len(result.hallucinations) <= 7 THEN 58
            ELSE 28
    IN  [quality_score |-> quality_score,
         issues_found |-> Len(result.hallucinations),
         model_files_found |-> Len(model_data),
         recommendations |-> result.recommendations,
         confidence |-> result.confidence,
         total_issues |-> Len(result.hallucinations)]

ModelExpert_generate_quality_metrics(p) ==
    ModelExpert_quality_metrics(ModelExpert_detect_hallucinations(p), ModelExpert_find_existing_model_data(p))

----------------------------------------------------------------------------
(* mcp_expert.py *)

MCPExpert_find_existing_mcp_data(p) ==
    LET config_files == <<"mcp_config.json", "mcp.yaml", "mcp.toml",
                          ".mcp", "mcp_server.json", "mcp_client.json">>
        log_dirs == <<"logs", "mcp_logs", ".mcp_logs">>
    IN  Existing(p, config_files) \o Existing(p, log_dirs)

MCPExpert_analyze_mcp_config(p) ==
    LET config_files == <<"mcp_config.json", "mcp.yaml">>
        one(config_file) ==
            IF Exists(p, config_file) /\ ~ReadRaises(p, config_file)
            THEN OneIssue(/\ Contains(Lower(ReadText(p, config_file)), "mcp")
                          /\ ~Contains(ReadText(p, config_file), "server")
                          /\ ~Contains(ReadText(p, config_file), "client"),
                          [type |-> "mcp_config_issue", file |-> config_file,
                           description |-> "MCP configuration missing server/client specification",
                           priority |-> "medium", tool |-> "mcp_config",
                           source |-> "existing_config"])
            ELSE <<>>
    IN  Flatten([i \in DOMAIN config_files |-> one(config_files[i])])

MCPExpert_analyze_mcp_logs(p) ==
    LET log_files == <<"mcp.log", "mcp_server.log", "mcp_client.log">>
        one(log_path) ==
            IF Exists(p, log_path) /\ ~ReadRaises(p, log_path)
            THEN OneIssue(ContainsAny(Lower(ReadText(p, log_path)), {"error", "failed"}),
                          [type |-> "mcp_failure", file |-> log_path,
                           description |-> "MCP log contains error or failure messages",
                           priority |-> "high", tool |-> "mcp_logs",
                           source |-> "existing_logs"])
            ELSE <<>>
    IN  Flatten([i \in DOMAIN log_files |-> one(log_files[i])])

MCPExpert_detect_hallucinations(p) ==
    LET mcp_data == MCPExpert_find_existing_mcp_data(p)
        hallucinations == MCPExpert_analyze_mcp_config(p) \o MCPExpert_analyze_mcp_logs(p)
    IN  IF mcp_data = <<>>
        THEN [hallucinations |-> <<>>,
              confidence |-> 300,
              recommendations |-> <<"No existing MCP configuration found",
                                    "Consider setting up MCP server configuration",
                                    "Implement MCP client integration",
                                    "Set up MCP logging and monitoring">>]
        ELSE [hallucinations |-> hallucinations,
              confidence |-> calculate_confidence(hallucinations),
              recommendations |->
                  IF hallucinations # <<>>
                  THEN <<"Review and fix MCP configuration issues",
                         "Address MCP connection issues identified in logs",
                         "Improve MCP error handling and logging",
                         "Consider implementing MCP health checks">>
                  ELSE <<"MCP configuration appears sound based on existing files",
                         "Continue monitoring MCP performance",
                         "Consider implementing advanced MCP strategies",
                         "Add comprehensive MCP monitoring and alerting">>]

\* the metrics computed from the result of the detection pass and from what
\* the second discovery found
MCPExpert_quality_metrics(result, mcp_data) ==
    LET quality_score ==
            IF mcp_data = <<>> THEN 0
            ELSE IF result.hallucinations = <<>> THEN 87
            ELSE IF Len(result.hallucinations) <= 3 THEN 73
            ELSE IF Len(result.hallucinations) <= 7 THEN 53
            ELSE 23
    IN  [quality_score |-> quality_score,
         issues_found |-> Len(result.hallucinations),
         mcp_files_found |-> Len(mcp_data),
         recommendations |-> result.recommendations,
         confidence |-> result.confidence,
         total_issues |-> Len(result.hallucinations)]

MCPExpert_generate_quality_metrics(p) ==
    MCPExpert_quality_metrics(MCPExpert_detect_hallucinations(p), MCPExpert_find_existing_mcp_data(p))

----------------------------------------------------------------------------
(* test_expert.py *)

TestExpert_find_existing_test_data(p) ==
    LET config_files == <<"pytest.ini", "pyproject.toml", "setup.cfg", "tox.ini",
                          ".coveragerc", "coverage.ini">>
        output_files == <<"coverage.xml", "htmlcov", ".coverage",
                          "test-results.xml", "junit.xml", "test-report.xml">>
        test_dirs == <<"tests", "test", "tests_*">>
        in_dir(test_dir) == IF Exists(p, test_dir) THEN RGlob(p, test_dir, ".py") ELSE <<>>
    IN  Existing(p, config_files) \o Existing(p, output_files)
            \o Flatten([i \in DOMAIN test_dirs |-> in_dir(test_dirs[i])])

TestExpert_analyze_test_config(p) ==
    LET pytest_files == <<"pytest.ini", "pyproject.toml">>
        one(pytest_file) ==
            IF Exists(p, pytest_file) /\ ~ReadRaises(p, pytest_file)
            THEN LET content == ReadText(p, pytest_file)
                 IN  IF Contains(Lower(content), "pytest")
                     THEN OneIssue(~Contains(content, "testpaths") /\ ~Contains(content, "python_files"),
                                   [type |-> "test_config_issue", file |-> pytest_file,
                                    description |-> "Pytest configuration missing test discovery settings",
                                    priority |-> "medium", tool |-> "pytest",
                                    source |-> "existing_config"])
                          \o
                          OneIssue(~Contains(content, "cov") /\ ~Contains(content, "coverage"),
                                   [type |-> "test_config_issue", file |-> pytest_file,
                                    description |-> "Pytest configuration missing coverage settings",
                                    priority |-> "low", tool |-> "pytest",
                                    source |-> "existing_config"])
                     ELSE <<>>
            ELSE <<>>
    IN  Flatten([i \in DOMAIN pytest_files |-> one(pytest_files[i])])

\* An XML report is modelled by the elements below its root: the words
\* <failure>, <error>, <skipped> say that such an element occurs there.
TestExpert_analyze_test_outputs(p) ==
    LET result_files == <<"test-results.xml", "junit.xml", "test-report.xml">>
        one(result_file) ==
            IF Exists(p, result_file) /\ ~ParseRaises(p, result_file)
            THEN LET root == ReadText(p, result_file)
                     failures == (IF Contains(root, "<failure>") THEN 1 ELSE 0)
                                 + (IF Contains(root, "<error>") THEN 1 ELSE 0)
                 IN  OneIssue(failures > 0,
                              [type |-> "test_failure", file |-> result_file,
                               description |-> <<"Found test failures in results", failures>>,
                               priority |-> "high", tool |-> "test_results",
                               source |-> "existing_output"])
                     \o
                     OneIssue(Contains(root, "<skipped>"),
                              [type |-> "test_skipped", file |-> result_file,
                               description |-> <<"Found skipped tests", 1>>,
                               priority |-> "medium", tool |-> "test_results",
                               source |-> "existing_output"])
            ELSE <<>>
    IN  Flatten([i \in DOMAIN result_files |-> one(result_files[i])])

\* coverage.xml is modelled by these words:
\*   <coverage>/        the document root is a coverage element
\*   <coverage>         a coverage element occurs below the root
\*   line-rate>=0.8     the line-rate of the coverage elements is at least 0.8
\*                      (without the word it is lower, or absent and read as "0")
\*   line-rate=?        the line-rate is no number: float() raises
\* root.find(".//coverage") searches the elements below the root, not the root.
TestExpert_analyze_coverage_reports(p) ==
    LET coverage_xml == "coverage.xml"
        index_file == "htmlcov/index.html"
        from_xml ==
            IF Exists(p, coverage_xml) /\ ~ParseRaises(p, coverage_xml)
            THEN LET root == ReadText(p, coverage_xml)
                     coverage_elem_found == Contains(root, "<coverage>")
                 IN  IF coverage_elem_found /\ ~Contains(root, "line-rate=?")
                     THEN OneIssue(~Contains(root, "line-rate>=0.8"),
                                   [type |-> "coverage_low", file |-> coverage_xml,
                                    description |-> "Test coverage is below recommended 80%",
                                    priority |-> "medium", tool |-> "coverage",
                                    source |-> "existing_output"])
                     ELSE <<>>
            ELSE <<>>
        from_html ==
            IF Exists(p, "htmlcov") /\ Exists(p, index_file) /\ ~ReadRaises(p, index_file)
            THEN OneIssue(Contains(Lower(ReadText(p, index_file)), "coverage"),
                          [type |-> "coverage_report", file |-> index_file,
                           description |-> "HTML coverage report available for review",
                           priority |-> "low", tool |-> "coverage",
                           source |-> "existing_output"])
            ELSE <<>>
    IN  from_xml \o from_html

\* index_file.exists() is outside the try blocks of _analyze_coverage_reports
TestExpert_analyze_coverage_reports_raises(p) ==
    Exists(p, "htmlcov") /\ StatRaises(p, "htmlcov/index.html")

\* the call raises: the analysis runs when test data was found
TestExpert_detect_hallucinations_raises(p) ==
    /\ TestExpert_find_existing_test_data(p) # <<>>
    /\ TestExpert_analyze_coverage_reports_raises(p)

TestExpert_detect_hallucinations(p) ==
    LET test_data == TestExpert_find_existing_test_data(p)
        hallucinations == TestExpert_analyze_test_config(p)
                              \o TestExpert_analyze_test_outputs(p)
                              \o TestExpert_analyze_coverage_reports(p)
    IN  IF test_data = <<>>
        THEN [hallucinations |-> <<>>,
              confidence |-> 300,
              recommendations |-> <<"No existing test configuration found",
                                    "Consider setting up pytest with proper configuration",
                                    "Implement test coverage reporting",
                                    "Set up automated testing in CI/CD pipeline">>]
        ELSE [hallucinations |-> hallucinations,
              confidence |-> calculate_confidence(hallucinations),
              recommendations |->
                  IF hallucinations # <<>>
                  THEN <<"Review and fix test configuration issues",
                         "Address failing tests identified in outputs",
                         "Improve test coverage based on reports",
                         "Ensure tests are properly integrated in CI/CD",
                         "Consider adding more comprehensive test suites">>
                  ELSE <<"Test configuration appears sound based on existing files",
                         "Continue monitoring test performance and coverage",
                         "Consider implementing advanced testing strategies",
                         "Add performance and load testing if applicable">>]

\* the metrics computed from the result of the detection pass and from what
\* the second discovery found
TestExpert_quality_metrics(result, test_data) ==
    LET quality_score ==
            IF test_data = <<>> THEN 0
            ELSE IF result.hallucinations = <<>> THEN 95
            ELSE IF Len(result.hallucinations) <= 3 THEN 80
            ELSE IF Len(result.hallucinations) <= 7 THEN 60
            ELSE 30
    IN  [quality_score |-> quality_score,
         issues_found |-> Len(result.hallucinations),
         test_files_found |-> Len(test_data),
         recommendations |-> result.recommendations,
         confidence |-> result.confidence,
         total_issues |-> Len(result.hallucinations)]

TestExpert_generate_quality_metrics(p) ==
    TestExpert_quality_metrics(TestExpert_detect_hallucinations(p), TestExpert_find_existing_test_data(p))

----------------------------------------------------------------------------
(* architecture_expert.py *)

ArchitectureExpert_find_existing_architecture_data(p) ==
    LET doc_files == <<"README.md", "ARCHITECTURE.md", "DESIGN.md", "docs",
                       "adr", "decisions", "architecture", "design">>
        structure_files == <<"pyproject.toml", "setup.py", "requirements.txt",
                             "src", "lib", "app", "core">>
        found(file_path, suffix) ==
            IF Exists(p, file_path)
            THEN IF IsDir(file_path) THEN RGlob(p, file_path, suffix) ELSE <<file_path>>
            ELSE <<>>
    IN  Flatten([i \in DOMAIN doc_files |-> found(doc_files[i], ".md")])
            \o Flatten([i \in DOMAIN structure_files |-> found(structure_files[i], ".py")])

ArchitectureExpert_analyze_architecture_docs(p) ==
    LET readme_file == "README.md"
        docs_dir == "docs"
        from_readme ==
            IF Exists(p, readme_file) /\ ~ReadRaises(p, readme_file)
            THEN LET content == ReadText(p, readme_file)
                 IN  OneIssue(/\ ~Contains(Lower(content), "architecture")
                              /\ ~Contains(Lower(content), "design"),
                              [type |-> "documentation_issue", file |-> readme_file,
                               description |-> "README missing architecture/design section",
                               priority |-> "medium", tool |-> "documentation",
                               source |-> "existing_docs"])
            ELSE <<>>
        from_docs ==
            IF Exists(p, docs_dir)
            THEN LET arch_docs == RGlobName(p, docs_dir, "architecture")
                                      \o RGlobName(p, docs_dir, "design")
                 IN  OneIssue(arch_docs = <<>>,
                              [type |-> "documentation_issue", file |-> docs_dir,
                               description |-> "Docs directory missing architecture/design documentation",
                               priority |-> "medium", tool |-> "documentation",
                               source |-> "existing_docs"])
            ELSE <<>>
    IN  from_readme \o from_docs

ArchitectureExpert_analyze_code_structure(p) ==
    LET src_dir == "src"
    IN  IF Exists(p, src_dir)
        THEN LET py_files == RGlob(p, src_dir, ".py")
                 init_files == SelectSeq(py_files,
                                         LAMBDA f : f \in {"src/pkg/__init__.py"})
                 parents == {Parent(py_files[i]) : i \in DOMAIN py_files}
             IN  OneIssue(py_files # <<>> /\ Len(init_files) < Cardinality(parents),
                          [type |-> "structure_issue", file |-> src_dir,
                           description |-> "Some Python packages missing __init__.py files",
                           priority |-> "medium", tool |-> "code_structure",
                           source |-> "existing_structure"])
        ELSE LET py_files == RGlob(p, "", ".py")
             IN  OneIssue(Len(py_files) > 10,
                          [type |-> "structure_issue", file |-> "",
                           description |-> "Consider organizing code into src/ directory structure",
                           priority |-> "low", tool |-> "code_structure",
                           source |-> "existing_structure"])

ArchitectureExpert_analyze_dependencies(p) ==
    LET pyproject_file == "pyproject.toml"
        requirements_file == "requirements.txt"
        unpinned(content) == Contains(content, ">=") /\ ~Contains(content, "==")
        from_pyproject ==
            IF Exists(p, pyproject_file) /\ ~ReadRaises(p, pyproject_file)
            THEN LET content == ReadText(p, pyproject_file)
                 IN  OneIssue(Contains(content, "dependencies") /\ unpinned(content),
                              [type |-> "dependency_issue", file |-> pyproject_file,
                               description |-> "Consider pinning dependency versions for reproducibility",
                               priority |-> "medium", tool |-> "dependency_management",
                               source |-> "existing_config"])
            ELSE <<>>
        from_requirements ==
            IF Exists(p, requirements_file) /\ ~ReadRaises(p, requirements_file)
            THEN OneIssue(unpinned(ReadText(p, requirements_file)),
                          [type |-> "dependency_issue", file |-> requirements_file,
                           description |-> "Consider pinning dependency versions for reproducibility",
                           priority |-> "medium", tool |-> "dependency_management",
                           source |-> "existing_config"])
            ELSE <<>>
    IN  from_pyproject \o from_requirements

ArchitectureExpert_detect_hallucinations(p) ==
    LET arch_data == ArchitectureExpert_find_existing_architecture_data(p)
        hallucinations == ArchitectureExpert_analyze_architecture_docs(p)
                              \o ArchitectureExpert_analyze_code_structure(p)
                              \o ArchitectureExpert_analyze_dependencies(p)
    IN  IF arch_data = <<>>
        THEN [hallucinations |-> <<>>,
              confidence |-> 300,
              recommendations |-> <<"No existing architecture documentation found",
                                    "Consider creating architecture decision records (ADRs)",
                                    "Document system components and their relationships",
                                    "Create dependency diagrams and system maps">>]
        ELSE [hallucinations |-> hallucinations,
              confidence |-> calculate_confidence(hallucinations),
              recommendations |->
                  IF hallucinations # <<>>
                  THEN <<"Review and improve architecture documentation",
                         "Address structural issues in code organization",
                         "Update dependency management and versioning",
                         "Consider implementing architectural patterns",
                         "Document system boundaries and interfaces">>
                  ELSE <<"Architecture appears well-documented based on existing files",
                         "Continue monitoring architectural decisions",
                         "Consider implementing advanced architectural patterns",
                         "Add performance and scalability documentation">>]

\* the metrics computed from the result of the detection pass and from what
\* the second discovery found
ArchitectureExpert_quality_metrics(result, arch_data) ==
    LET quality_score ==
            IF arch_data = <<>> THEN 0
            ELSE IF result.hallucinations = <<>> THEN 85
            ELSE IF Len(result.hallucinations) <= 3 THEN 70
            ELSE IF Len(result.hallucinations) <= 7 THEN 50
            ELSE 20
    IN  [quality_score |-> quality_score,
         issues_found |-> Len(result.hallucinations),
         arch_files_found |-> Len(arch_data),
         recommendations |-> result.recommendations,
         confidence |-> result.confidence,
         total_issues |-> Len(result.hallucinations)]

ArchitectureExpert_generate_quality_metrics(p) ==
    ArchitectureExpert_quality_metrics(ArchitectureExpert_detect_hallucinations(p), ArchitectureExpert_find_existing_architecture_data(p))

----------------------------------------------------------------------------
(* devops_expert.py *)

\* A YAML file is modelled by words that name what yaml.safe_load returns:
\*   no word at all            an empty document: safe_load returns None
\*   "on":                     the mapping has the string key on (quoted in
\*                             the file)
\*   on:                       the file has the plain key on, which YAML 1.1
\*                             resolves to the boolean True: the mapping has
\*                             the key True and no key "on"
\*   jobs:, stages:, ...       the mapping has that key
\*   permissions.contents=write, permissions=read-all
\*                             the value of the key permissions: a mapping
\*                             with contents: write, or a plain string
\*   services[i]:privileged, services[i]:plain, services[i]:null
\*                             the i-th service of a compose file
\*   containers[i]:no-resources, containers[i]:resources, containers[i]:str
\*                             the i-th container of spec.template.spec
\* yaml.safe_load returned a non-empty value
YamlLoaded(words) == \E w \in words : w \notin {"#unreadable", "#malformed"}

DevOpsExpert_find_existing_ci_cd_data(p) ==
    LET ci_dirs == <<".github", ".gitlab-ci", ".circleci", "ci", "jenkins", ".azure">>
        infra_files == <<"docker-compose.yml", "docker-compose.yaml", "Dockerfile", "dockerfile",
                         "terraform.tf", "terraform.tfvars", "cloudformation.yaml",
                         "cloudformation.yml", "kubernetes.yaml", "k8s.yaml",
                         "helm-chart.yaml", "values.yaml">>
        in_dir(ci_dir) ==
            IF Exists(p, ci_dir)
            THEN RGlob(p, ci_dir, ".yml") \o RGlob(p, ci_dir, ".yaml")
                     \o RGlob(p, ci_dir, ".json") \o RGlob(p, ci_dir, ".xml")
            ELSE <<>>
    IN  Flatten([i \in DOMAIN ci_dirs |-> in_dir(ci_dirs[i])]) \o Existing(p, infra_files)

DevOpsExpert_analyze_ci_cd_config(p) ==
    LET github_dir == ".github/workflows"
        gitlab_file == ".gitlab-ci.yml"
        one(workflow_file) ==
            IF ParseRaises(p, workflow_file) THEN <<>>
            ELSE LET workflow == WordsOf(p, workflow_file)
                 IN  IF YamlLoaded(workflow)
                     THEN OneIssue("\"on\":" \notin workflow,
                                   [type |-> "ci_config_issue", file |-> workflow_file,
                                    description |-> "Missing trigger configuration in GitHub Actions workflow",
                                    priority |-> "high", tool |-> "github_actions",
                                    source |-> "existing_config"])
                          \o
                          \* perms.get raises when permissions is a string: the
                          \* issue appended before stays, nothing more is added
                          OneIssue("permissions.contents=write" \in workflow
                                       /\ "permissions=read-all" \notin workflow,
                                   [type |-> "security_issue", file |-> workflow_file,
                                    description |-> "Workflow has write permissions to repository contents",
                                    priority |-> "medium", tool |-> "github_actions",
                                    source |-> "existing_config"])
                     ELSE <<>>
        workflows == IF Exists(p, github_dir) THEN RGlob(p, github_dir, ".yml") ELSE <<>>
        from_gitlab ==
            IF Exists(p, gitlab_file) /\ ~ParseRaises(p, gitlab_file)
            THEN LET gitlab_config == WordsOf(p, gitlab_file)
                 IN  OneIssue(YamlLoaded(gitlab_config) /\ "stages:" \notin gitlab_config,
                              [type |-> "ci_config_issue", file |-> gitlab_file,
                               description |-> "Missing stages configuration in GitLab CI",
                               priority |-> "medium", tool |-> "gitlab_ci",
                               source |-> "existing_config"])
            ELSE <<>>
    IN  Flatten([i \in DOMAIN workflows |-> one(workflows[i])]) \o from_gitlab

DevOpsExpert_analyze_deployment_config(p) ==
    LET docker_compose_files == <<"docker-compose.yml", "docker-compose.yaml">>
        k8s_files == <<"kubernetes.yaml", "k8s.yaml">>
        \* the loop over the items stops at the first one that raises; the
        \* issues appended before it stay in the list
        items(words, name, n) ==
            LET raises(i) == (name \o "[" \o ToString(i) \o "]:null") \in words
                                 \/ (name \o "[" \o ToString(i) \o "]:str") \in words
                bad(i) == (name \o "[" \o ToString(i) \o "]:privileged") \in words
                              \/ (name \o "[" \o ToString(i) \o "]:no-resources") \in words
            IN  SelectSeq([i \in 1..n |-> i - 1],
                          LAMBDA i : bad(i) /\ \A j \in 0..i : ~raises(j))
        compose(compose_file) ==
            IF Exists(p, compose_file) /\ ~ParseRaises(p, compose_file)
            THEN LET services == items(WordsOf(p, compose_file), "services", 2)
                 IN  [k \in DOMAIN services |->
                         [type |-> "security_issue", file |-> compose_file,
                          description |-> <<"Service runs in privileged mode", services[k]>>,
                          priority |-> "high", tool |-> "docker_compose",
                          source |-> "existing_config"]]
            ELSE <<>>
        k8s(k8s_file) ==
            IF Exists(p, k8s_file) /\ ~ParseRaises(p, k8s_file)
            THEN LET containers == items(WordsOf(p, k8s_file), "containers", 2)
                 IN  [k \in DOMAIN containers |->
                         [type |-> "deployment_issue", file |-> k8s_file,
                          description |-> <<"Container missing resource limits", containers[k]>>,
                          priority |-> "medium", tool |-> "kubernetes",
                          source |-> "existing_config"]]
            ELSE <<>>
    IN  Flatten([i \in DOMAIN docker_compose_files |-> compose(docker_compose_files[i])])
            \o Flatten([i \in DOMAIN k8s_files |-> k8s(k8s_files[i])])

DevOpsExpert_analyze_infrastructure_config(p) ==
    LET terraform_files == <<"terraform.tf", "terraform.tfvars">>
        cloudformation_files == <<"cloudformation.yaml", "cloudformation.yml">>
        tf(tf_file) ==
            IF Exists(p, tf_file) /\ ~ReadRaises(p, tf_file)
            THEN LET content == ReadText(p, tf_file)
                 IN  OneIssue(Contains(content, "provider") /\ ~Contains(content, "region"),
                              [type |-> "infrastructure_issue", file |-> tf_file,
                               description |-> "Terraform configuration missing region specification",
                               priority |-> "medium", tool |-> "terraform",
                               source |-> "existing_config"])
            ELSE <<>>
        cf(cf_file) ==
            IF Exists(p, cf_file) /\ ~ParseRaises(p, cf_file)
            THEN LET cf_config == WordsOf(p, cf_file)
                 IN  OneIssue(YamlLoaded(cf_config) /\ "Resources:" \notin cf_config,
                              [type |-> "infrastructure_issue", file |-> cf_file,
                               description |-> "CloudFormation template missing Resources section",
                               priority |-> "high", tool |-> "cloudformation",
                               source |-> "existing_config"])
            ELSE <<>>
    IN  Flatten([i \in DOMAIN terraform_files |-> tf(terraform_files[i])])
            \o Flatten([i \in DOMAIN cloudformation_files |-> cf(cloudformation_files[i])])

DevOpsExpert_analyze_existing_logs(p) ==
    LET log_files == <<"deployment.log", "ci.log", "build.log", "error.log", "app.log",
                       "server.log">>
        one(log_file) ==
            IF Exists(p, log_file) /\ ~ReadRaises(p, log_file)
            THEN LET content == ReadText(p, log_file)
                 IN  OneIssue(Contains(Lower(content), "error") \/ Contains(Lower(content), "failed"),
                              [type |-> "log_analysis", file |-> log_file,
                               description |-> "Log file contains error or failure messages",
                               priority |-> "medium", tool |-> "log_analysis",
                               source |-> "existing_logs"])
            ELSE <<>>
    IN  Flatten([i \in DOMAIN log_files |-> one(log_files[i])])

\* github_dir.exists() is outside the try blocks of _analyze_ci_cd_config
DevOpsExpert_analyze_ci_cd_config_raises(p) == StatRaises(p, ".github/workflows")

\* the call raises: the analysis runs when CI/CD data was found
DevOpsExpert_detect_hallucinations_raises(p) ==
    /\ DevOpsExpert_find_existing_ci_cd_data(p) # <<>>
    /\ DevOpsExpert_analyze_ci_cd_config_raises(p)

DevOpsExpert_detect_hallucinations(p) ==
    LET ci_cd_data == DevOpsExpert_find_existing_ci_cd_data(p)
        hallucinations == DevOpsExpert_analyze_ci_cd_config(p)
                              \o DevOpsExpert_analyze_deployment_config(p)
                              \o DevOpsExpert_analyze_infrastructure_config(p)
                              \o DevOpsExpert_analyze_existing_logs(p)
    IN  IF ci_cd_data = <<>>
        THEN [hallucinations |-> <<>>,
              confidence |-> 300,
              recommendations |-> <<"No existing CI/CD configuration found",
                                    "Consider setting up GitHub Actions, GitLab CI, or similar",
                                    "Implement automated testing and deployment pipelines",
                                    "Set up infrastructure as code with Terraform or CloudFormation">>]
        ELSE [hallucinations |-> hallucinations,
              confidence |-> calculate_confidence(hallucinations),
              recommendations |->
                  IF hallucinations # <<>>
                  THEN <<"Review and fix CI/CD configuration issues",
                         "Ensure deployment pipelines are properly configured",
                         "Validate infrastructure as code configurations",
                         "Implement proper logging and monitoring",
                         "Set up automated testing and quality gates">>
                  ELSE <<"DevOps configuration appears sound based on existing files",
                         "Continue monitoring CI/CD pipeline performance",
                         "Consider implementing advanced deployment strategies",
                         "Add comprehensive monitoring and alerting">>]

\* the metrics computed from the result of the detection pass and from what
\* the second discovery found
DevOpsExpert_quality_metrics(result, ci_cd_data) ==
    LET quality_score ==
            IF ci_cd_data = <<>> THEN 0
            ELSE IF result.hallucinations = <<>> THEN 90
            ELSE IF Len(result.hallucinations) <= 3 THEN 75
            ELSE IF Len(result.hallucinations) <= 7 THEN 55
            ELSE 25
    IN  [quality_score |-> quality_score,
         issues_found |-> Len(result.hallucinations),
         ci_cd_files_found |-> Len(ci_cd_data),
         recommendations |-> result.recommendations,
         confidence |-> result.confidence,
         total_issues |-> Len(result.hallucinations)]

DevOpsExpert_generate_quality_metrics(p) ==
    DevOpsExpert_quality_metrics(DevOpsExpert_detect_hallucinations(p), DevOpsExpert_find_existing_ci_cd_data(p))

----------------------------------------------------------------------------
(* security_expert.py *)

\* The content of a python file is modelled by the patterns that match it:
\* the word is the regular expression, and re.search(pattern, content)
\* holds when the word is among the words of the file.
SecurityExpert_credential_patterns ==
    <<"sk-[a-zA-Z0-9]{48}", "pk_[a-zA-Z0-9]{48}", "AKIA[a-zA-Z0-9]{16}",
      "ghp_[a-zA-Z0-9]{36}", "gho_[a-zA-Z0-9]{36}">>

SecurityExpert_subprocess_patterns ==
    <<"import subprocess", "subprocess\\.run", "subprocess\\.Popen",
      "subprocess\\.call", "os\\.system", "os\\.popen">>

\* One literal of the model is a piece of text rather than a pattern: a
\* single credential, sk- followed by AKIA and 44 more alphanumeric
\* characters.  It matches the sk- pattern and, inside its 48 characters,
\* the AKIA pattern.
OverlappingCredential == "sk-AKIA0123456789ABCDEF0123456789ABCDEF0123456789AB"

\* re.search(pattern, content)
ReSearch(pattern, content) ==
    \/ pattern \in content.words
    \/ /\ OverlappingCredential \in content.words
       /\ pattern \in {"sk-[a-zA-Z0-9]{48}", "AKIA[a-zA-Z0-9]{16}"}

SecurityExpert_detect_hallucinations(p) ==
    LET py_files == RGlob(p, "", ".py")
        matching(content, patterns) ==
            SelectSeq(patterns, LAMBDA pattern : ReSearch(pattern, content))
        one(py_file) ==
            IF ReadRaises(p, py_file) THEN <<>>
            ELSE LET content == ReadText(p, py_file)
                     credentials == matching(content, SecurityExpert_credential_patterns)
                     subprocesses == matching(content, SecurityExpert_subprocess_patterns)
                 IN  [k \in DOMAIN credentials |->
                         [type |-> "security_vulnerability", file |-> py_file,
                          pattern |-> credentials[k], priority |-> "high",
                          description |-> <<"Potential hardcoded credential found", credentials[k]>>,
                          line |-> 1]]
                     \o
                     [k \in DOMAIN subprocesses |->
                         [type |-> "subprocess_vulnerability", file |-> py_file,
                          pattern |-> subprocesses[k], priority |-> "critical",
                          description |-> <<"Subprocess usage detected", subprocesses[k]>>,
                          line |-> 1]]
        hallucinations == Flatten([i \in DOMAIN py_files |-> one(py_files[i])])
    IN  [hallucinations |-> hallucinations,
         confidence |-> calculate_confidence(hallucinations),
         recommendations |->
             IF hallucinations # <<>>
             THEN <<"Use environment variables for credentials",
                    "Implement secret management",
                    "Replace subprocess calls with native Python operations",
                    "Use Go/Rust for performance-critical shell operations",
                    "Implement gRPC shell service for secure command execution">>
             ELSE <<"No security issues detected",
                    "Continue monitoring for security vulnerabilities",
                    "Implement automated security scanning in CI/CD">>]

\* calculate_risk_score without min(10.0, total_score)
SecurityExpert_calculate_risk_score_uncapped(issues) ==
    LET total[i \in 0..Len(issues)] ==
            IF i = 0 THEN 0
            ELSE total[i - 1]
                 + (CASE DictGet(issues[i], "priority", None) = "critical" -> 10
                      [] DictGet(issues[i], "priority", None) = "high" -> 5
                      [] DictGet(issues[i], "priority", None) = "medium" -> 2
                      [] OTHER -> 1)
    IN  total[Len(issues)]

SecurityExpert_calculate_risk_score(issues) ==
    LET total[i \in 0..Len(issues)] ==
            IF i = 0 THEN 0
            ELSE total[i - 1]
                 + (CASE DictGet(issues[i], "priority", None) = "critical" -> 10
                      [] DictGet(issues[i], "priority", None) = "high" -> 5
                      [] DictGet(issues[i], "priority", None) = "medium" -> 2
                      [] OTHER -> 1)
    IN  IF issues = <<>> THEN 0 ELSE Min(10, total[Len(issues)])

\* the penalty loop of generate_quality_metrics, before the clamp
SecurityExpert_penalised(hs) ==
    LET penalised[i \in 0..Len(hs)] ==
            IF i = 0 THEN 100
            ELSE penalised[i - 1]
                 - (CASE DictGet(hs[i], "priority", None) = "critical" -> 25
                      [] DictGet(hs[i], "priority", None) = "high" -> 15
                      [] OTHER -> 5)
    IN  penalised[Len(hs)]

\* the quality score without max(0.0, quality_score)
SecurityExpert_quality_score_unclamped(hs) ==
    IF hs = <<>> THEN 100 ELSE SecurityExpert_penalised(hs)

\* the quality score generate_quality_metrics computes from the findings
SecurityExpert_quality_score(hs) ==
    IF hs = <<>> THEN 100 ELSE Max(0, SecurityExpert_penalised(hs))

SecurityExpert_generate_quality_metrics(p) ==
    LET result == SecurityExpert_detect_hallucinations(p)
        hs == result.hallucinations
        quality_score == SecurityExpert_quality_score(hs)
    IN  [quality_score |-> quality_score,
         issues_found |-> Len(hs),
         critical_issues |-> CountPriority(hs, "critical"),
         high_issues |-> CountPriority(hs, "high"),
         security_issues |-> hs,
         recommendations |-> result.recommendations,
         confidence |-> result.confidence,
         risk_score |-> SecurityExpert_calculate_risk_score(hs)]

----------------------------------------------------------------------------
(* code_quality_expert.py *)

CodeQualityExpert_ci_dirs == <<".github", ".gitlab-ci", ".circleci", "ci", "jenkins">>

CodeQualityExpert_find_existing_tool_outputs(p) ==
    LET tool_outputs == <<"pyproject.toml", ".ruff.toml", "pytest.ini", "setup.cfg", ".flake8",
                          "tox.ini", "coverage.xml", "htmlcov", "logs", ".github/workflows",
                          ".gitlab-ci.yml">>
        ci_dirs == CodeQualityExpert_ci_dirs
        in_dir(ci_dir) ==
            IF Exists(p, ci_dir)
            THEN RGlob(p, ci_dir, ".yml") \o RGlob(p, ci_dir, ".yaml") \o RGlob(p, ci_dir, ".json")
            ELSE <<>>
    IN  Existing(p, tool_outputs) \o Flatten([i \in DOMAIN ci_dirs |-> in_dir(ci_dirs[i])])

\* A flake8 report is modelled by the words entry[0], entry[1], entry[2]: the
\* i-th element of the JSON list (or the i-th line of the text report that
\* splits into at least four parts at ":") is a violation; entry[i]:str says
\* that the i-th element of the JSON list is a string, on which issue.get
\* raises.  The issues appended before the exception stay in the list.
CodeQualityExpert_analyze_existing_flake8_outputs(p) ==
    LET flake8_files == <<"flake8_report.json", "flake8_report.txt", ".flake8">>
        entry(i) == "entry[" \o ToString(i) \o "]"
        one(flake8_file) ==
            IF Exists(p, flake8_file) /\ ~ReadRaises(p, flake8_file)
                  /\ ~(HasSuffix(flake8_file, ".json") /\ ParseRaises(p, flake8_file))
            THEN LET data == WordsOf(p, flake8_file)
                     raises(i) == HasSuffix(flake8_file, ".json") /\ (entry(i) \o ":str") \in data
                     read == SelectSeq(<<0, 1, 2>>,
                                       LAMBDA i : entry(i) \in data /\ \A j \in 0..i : ~raises(j))
                 IN  [k \in DOMAIN read |->
                         [type |-> "code_quality_issue", file |-> "src/pkg/mod.py",
                          line |-> read[k] + 1, column |-> 1, code |-> "E501",
                          description |-> "line too long",
                          priority |-> "medium", tool |-> "flake8",
                          source |-> "existing_output"]]
            ELSE <<>>
    IN  Flatten([i \in DOMAIN flake8_files |-> one(flake8_files[i])])

CodeQualityExpert_analyze_existing_black_outputs(p) ==
    LET black_files == <<"black_report.txt", "pyproject.toml">>
        one(black_file) ==
            IF Exists(p, black_file) /\ ~ReadRaises(p, black_file)
            THEN LET content == ReadText(p, black_file)
                 IN  OneIssue(/\ Contains(Lower(content), "black")
                              /\ (Contains(content, "line-length") \/ Contains(content, "target-version")),
                              [type |-> "formatting_config", file |-> black_file,
                               description |-> "Black formatter configuration found",
                               priority |-> "low", tool |-> "black",
                               source |-> "existing_config"])
            ELSE <<>>
    IN  Flatten([i \in DOMAIN black_files |-> one(black_files[i])])

CodeQualityExpert_analyze_existing_mypy_outputs(p) ==
    LET mypy_files == <<"mypy_report.txt", "pyproject.toml", "setup.cfg">>
        one(mypy_file) ==
            IF Exists(p, mypy_file) /\ ~ReadRaises(p, mypy_file)
            THEN LET content == ReadText(p, mypy_file)
                 IN  OneIssue(/\ Contains(Lower(content), "mypy")
                              /\ (Contains(content, "warn_return_any")
                                      \/ Contains(content, "disallow_untyped_defs")),
                              [type |-> "type_checking_config", file |-> mypy_file,
                               description |-> "MyPy type checker configuration found",
                               priority |-> "low", tool |-> "mypy",
                               source |-> "existing_config"])
            ELSE <<>>
    IN  Flatten([i \in DOMAIN mypy_files |-> one(mypy_files[i])])

CodeQualityExpert_analyze_existing_ci_logs(p) ==
    LET ci_dirs == CodeQualityExpert_ci_dirs
        one(config_file) ==
            IF ReadRaises(p, config_file) THEN <<>>
            ELSE LET content == ReadText(p, config_file)
                 IN  OneIssue(Contains(content, "flake8") \/ Contains(content, "black")
                                  \/ Contains(content, "mypy"),
                              [type |-> "ci_quality_integration", file |-> config_file,
                               description |-> "Quality tools integrated in CI/CD pipeline",
                               priority |-> "low", tool |-> "ci_cd",
                               source |-> "existing_config"])
        in_dir(ci_dir) ==
            IF Exists(p, ci_dir)
            THEN LET config_files == RGlob(p, ci_dir, ".yml")
                 IN  Flatten([i \in DOMAIN config_files |-> one(config_files[i])])
            ELSE <<>>
    IN  Flatten([i \in DOMAIN ci_dirs |-> in_dir(ci_dirs[i])])

\* file_path.exists() of _find_existing_tool_outputs is in no try block, and
\* ".github/workflows" is among its tool_outputs
CodeQualityExpert_find_existing_tool_outputs_raises(p) == StatRaises(p, ".github/workflows")

\* the call raises: discovery is its first step
CodeQualityExpert_detect_hallucinations_raises(p) ==
    CodeQualityExpert_find_existing_tool_outputs_raises(p)

CodeQualityExpert_detect_hallucinations(p) ==
    LET tool_outputs == CodeQualityExpert_find_existing_tool_outputs(p)
        hallucinations == CodeQualityExpert_analyze_existing_flake8_outputs(p)
                              \o CodeQualityExpert_analyze_existing_black_outputs(p)
                              \o CodeQualityExpert_analyze_existing_mypy_outputs(p)
                              \o CodeQualityExpert_analyze_existing_ci_logs(p)
    IN  IF tool_outputs = <<>>
        THEN [hallucinations |-> <<>>,
              confidence |-> 500,
              recommendations |-> <<"No existing code quality tool outputs found",
                                    "Consider running quality tools and saving outputs for analysis",
                                    "Set up CI/CD pipeline to capture tool outputs",
                                    "Use pre-commit hooks to generate quality reports">>]
        ELSE [hallucinations |-> hallucinations,
              confidence |-> calculate_confidence(hallucinations),
              recommendations |->
                  IF hallucinations # <<>>
                  THEN <<"Address code quality issues found in existing tool outputs",
                         "Review and fix flake8 violations",
                         "Run black formatter to fix formatting issues",
                         "Add proper type annotations based on mypy findings",
                         "Consider implementing pre-commit hooks for automated quality checks",
                         "Set up quality gates in CI/CD pipeline">>
                  ELSE <<"Code quality checks passed based on existing tool outputs",
                         "Continue monitoring with automated quality checks",
                         "Consider adding more comprehensive quality analysis tools">>]

\* the quality score generate_quality_metrics computes from the findings
CodeQualityExpert_quality_score(hs) ==
    LET penalised[i \in 0..Len(hs)] ==
            IF i = 0 THEN 100
            ELSE penalised[i - 1]
                 - (CASE DictGet(hs[i], "priority", None) = "critical" -> 10
                      [] DictGet(hs[i], "priority", None) = "high" -> 5
                      [] DictGet(hs[i], "priority", None) = "medium" -> 2
                      [] OTHER -> 1)
    IN  IF hs = <<>> THEN 100 ELSE Max(0, penalised[Len(hs)])

CodeQualityExpert_generate_quality_metrics(p) ==
    LET result == CodeQualityExpert_detect_hallucinations(p)
        hs == result.hallucinations
        quality_score == CodeQualityExpert_quality_score(hs)
    IN  [quality_score |-> quality_score,
         issues_found |-> Len(hs),
         flake8_issues |-> SelectSeq(hs, LAMBDA h : DictGet(h, "tool", None) = "flake8"),
         code_style_issues |-> SelectSeq(hs, LAMBDA h : DictGet(h, "type", None) = "formatting_config"),
         complexity_issues |-> SelectSeq(hs, LAMBDA h : DictGet(h, "type", None) = "type_checking_config"),
         recommendations |-> result.recommendations,
         confidence |-> result.confidence,
         total_issues |-> Len(hs)]

----------------------------------------------------------------------------
(* The eight experts behind one interface *)

\* expert.detect_hallucinations(project_path)
detect_hallucinations(e, p) ==
    CASE e = "security" -> SecurityExpert_detect_hallucinations(p)
      [] e = "code_quality" -> CodeQualityExpert_detect_hallucinations(p)
      [] e = "test" -> TestExpert_detect_hallucinations(p)
      [] e = "build" -> BuildExpert_detect_hallucinations(p)
      [] e = "architecture" -> ArchitectureExpert_detect_hallucinations(p)
      [] e = "model" -> ModelExpert_detect_hallucinations(p)
      [] e = "devops" -> DevOpsExpert_detect_hallucinations(p)
      [] e = "mcp" -> MCPExpert_detect_hallucinations(p)

\* expert.detect_hallucinations(project_path) raises instead of returning.
\* The other experts stat only names directly below project_path, and scan
\* and read inside try blocks or with rglob.
detect_hallucinations_raises(e, p) ==
    CASE e = "code_quality" -> CodeQualityExpert_detect_hallucinations_raises(p)
      [] e = "test" -> TestExpert_detect_hallucinations_raises(p)
      [] e = "devops" -> DevOpsExpert_detect_hallucinations_raises(p)
      [] OTHER -> FALSE

\* expert.generate_quality_metrics(project_path) raises: its first step is
\* the call of detect_hallucinations
generate_quality_metrics_raises(e, p) == detect_hallucinations_raises(e, p)

\* the outcome of a call that raised
Raised(call, exception) == [op |-> "raised", call |-> call, exception |-> exception]

\* expert.generate_quality_metrics(project_path)
generate_quality_metrics(e, p) ==
    CASE e = "security" -> SecurityExpert_generate_quality_metrics(p)
      [] e = "code_quality" -> CodeQualityExpert_generate_quality_metrics(p)
      [] e = "test" -> TestExpert_generate_quality_metrics(p)
      [] e = "build" -> BuildExpert_generate_quality_metrics(p)
      [] e = "architecture" -> ArchitectureExpert_generate_quality_metrics(p)
      [] e = "model" -> ModelExpert_generate_quality_metrics(p)
      [] e = "devops" -> DevOpsExpert_generate_quality_metrics(p)
      [] e = "mcp" -> MCPExpert_generate_quality_metrics(p)

\* the files the expert's discovery step finds: the artifacts of its domain.
\* SecurityExpert has no discovery step: what it analyses is the python
\* files of the project.
find_existing_data(e, p) ==
    CASE e = "security" -> RGlob(p, "", ".py")
      [] e = "code_quality" -> CodeQualityExpert_find_existing_tool_outputs(p)
      [] e = "test" -> TestExpert_find_existing_test_data(p)
      [] e = "build" -> BuildExpert_find_existing_build_data(p)
      [] e = "architecture" -> ArchitectureExpert_find_existing_architecture_data(p)
      [] e = "model" -> ModelExpert_find_existing_model_data(p)
      [] e = "devops" -> DevOpsExpert_find_existing_ci_cd_data(p)
      [] e = "mcp" -> MCPExpert_find_existing_mcp_data(p)

----------------------------------------------------------------------------
(* The caller of detect_hallucinations and generate_quality_metrics.  It   *)
(* holds one expert and a project directory.  Between calls the directory  *)
(* is edited, one file or directory or one piece of content at a time; a   *)
(* call reads the directory as it is and returns.  ret is the value the    *)
(* last call returned for the directory as it is now (NoCall after an      *)
(* edit); prev keeps the score of the last generate_quality_metrics call.  *)

\* the paths the edits of the model create, per expert
SamplePaths(e) ==
    CASE e = "security" -> {"main.py", "pkg", "pkg/util.py"}
      [] e = "code_quality" -> {"pyproject.toml", ".flake8", "flake8_report.json", ".github",
                                ".github/workflows", ".github/workflows/ci.yml"}
      [] e = "test" -> {"pytest.ini", "coverage.xml", "junit.xml", "htmlcov",
                        "htmlcov/index.html", "tests", "tests/test_a.py"}
      [] e = "build" -> {"pyproject.toml", "setup.py", "build", "build.log", "make.log"}
      [] e = "architecture" -> {"README.md", "docs", "docs/architecture.md", "docs/guide.md",
                                "src", "src/pkg", "src/pkg/__init__.py", "src/pkg/mod.py",
                                "requirements.txt", "scripts"}
      [] e = "model" -> {"model_config.json", "config.yaml", "models", "training.log"}
      [] e = "devops" -> {".github", ".github/workflows", ".github/workflows/ci.yml",
                          ".gitlab-ci.yml", "docker-compose.yml", "k8s.yaml", "terraform.tf",
                          "cloudformation.yaml", "deployment.log"}
      [] e = "mcp" -> {"mcp_config.json", "mcp.yaml", "logs", "mcp.log"}

\* the content the edits of the model write, per expert
SampleFacts(e) ==
    CASE e = "security" ->
             {"main.py", "pkg/util.py"}
                 \X {"sk-[a-zA-Z0-9]{48}", OverlappingCredential, "import subprocess",
                     "subprocess\\.run", "#unreadable"}
                 \cup {<<"pkg", "#locked">>}
      [] e = "code_quality" ->
             ({"pyproject.toml"} \X {"black", "line-length", "mypy", "warn_return_any"})
                 \cup ({"flake8_report.json"} \X {"entry[0]", "entry[1]", "entry[1]:str", "#malformed"})
                 \cup {<<".flake8", "entry[0]">>, <<".github/workflows/ci.yml", "flake8">>,
                       <<".github", "#locked">>}
      [] e = "test" ->
             ({"pytest.ini"} \X {"pytest", "testpaths", "coverage"})
                 \cup ({"coverage.xml"} \X {"<coverage>/", "<coverage>", "line-rate>=0.8",
                                            "line-rate=?", "#malformed"})
                 \cup ({"junit.xml"} \X {"<failure>", "<skipped>"})
                 \cup {<<"htmlcov/index.html", "coverage">>, <<"htmlcov", "#locked">>}
      [] e = "build" ->
             {<<"pyproject.toml", "build-system">>, <<"pyproject.toml", "#unreadable">>,
              <<"build.log", "ERROR">>, <<"build.log", "Failed">>, <<"make.log", "error">>}
      [] e = "architecture" ->
             {<<"README.md", "architecture">>, <<"README.md", "#unreadable">>,
              <<"requirements.txt", ">=">>, <<"requirements.txt", "==">>,
              <<"scripts", "#11-python-files">>, <<"docs", "#locked">>}
      [] e = "model" ->
             {<<"model_config.json", "model">>, <<"model_config.json", "version">>,
              <<"config.yaml", "model">>, <<"training.log", "error">>,
              <<"training.log", "#unreadable">>}
      [] e = "devops" ->
             ({".github/workflows/ci.yml"} \X {"\"on\":", "on:", "permissions.contents=write",
                                              "permissions=read-all"})
                 \cup ({".gitlab-ci.yml"} \X {"stages:", "script:"})
                 \cup ({"docker-compose.yml"} \X {"services[0]:privileged", "services[1]:null"})
                 \cup {<<"k8s.yaml", "containers[0]:no-resources">>,
                       <<"terraform.tf", "provider">>,
                       <<"cloudformation.yaml", "Resources:">>,
                       <<"cloudformation.yaml", "#malformed">>,
                       <<"deployment.log", "ERROR">>,
                       <<".github", "#locked">>}
      [] e = "mcp" ->
             {<<"mcp_config.json", "MCP">>, <<"mcp_config.json", "server">>,
              <<"mcp.yaml", "mcp">>, <<"mcp.yaml", "client">>, <<"mcp.log", "failed">>}

Init ==
    /\ expert \in Experts
    /\ project = EmptyProject
    /\ findings = <<>>
    /\ changes = <<>>
    /\ ret = NoCall
    /\ prev = NoCall

\* mkdir / touch: a new, empty file or directory in an existing directory
CreateArtifact(path) ==
    /\ path \notin project.exists
    /\ Parent(path) = "" \/ Parent(path) \in project.exists
    /\ Cardinality(project.exists) < MaxArtifacts
    /\ project' = [project EXCEPT !.exists = @ \cup {path}]
    /\ ret' = NoCall
    /\ UNCHANGED <<expert, findings, changes, prev>>

\* rm / rmdir: a file, or a directory nothing is left in
DeleteArtifact(path) ==
    /\ path \in project.exists
    /\ \A other \in project.exists : Parent(other) # path
    /\ project' = [exists |-> project.exists \ {path},
                   facts |-> {f \in project.facts : f[1] # path}]
    /\ ret' = NoCall
    /\ UNCHANGED <<expert, findings, changes, prev>>

\* an edit of an existing file after which it contains the word
WriteContent(path, word) ==
    /\ path \in project.exists
    /\ <<path, word>> \notin project.facts
    /\ Cardinality(project.facts) < MaxFacts
    /\ project' = [project EXCEPT !.facts = @ \cup {<<path, word>>}]
    /\ ret' = NoCall
    /\ UNCHANGED <<expert, findings, changes, prev>>

\* result = await expert.detect_hallucinations(project_path)
DetectHallucinations ==
    /\ ret' = IF detect_hallucinations_raises(expert, project)
              THEN Raised("detect_hallucinations", "PermissionError")
              ELSE [op |-> "detect_hallucinations",
                    result |-> detect_hallucinations(expert, project)]
    /\ UNCHANGED <<expert, project, findings, changes, prev>>

\* what the caller keeps of a metrics dictionary
Score(metrics) ==
    [op |-> "generate_quality_metrics",
     issues_found |-> metrics.issues_found,
     quality_score |-> metrics.quality_score]

\* metrics = await expert.generate_quality_metrics(project_path)
GenerateQualityMetrics ==
    /\ ret' = IF generate_quality_metrics_raises(expert, project)
              THEN Raised("generate_quality_metrics", "PermissionError")
              ELSE [op |-> "generate_quality_metrics",
                    result |-> generate_quality_metrics(expert, project)]
    /\ prev' = IF ret'.op = "raised" THEN prev ELSE Score(ret'.result)
    /\ UNCHANGED <<expert, project, findings, changes>>

Next ==
    \/ \E path \in SamplePaths(expert) : CreateArtifact(path)
    \/ \E path \in SamplePaths(expert) : DeleteArtifact(path)
    \/ \E f \in SampleFacts(expert) : WriteContent(f[1], f[2])
    \/ DetectHallucinations
    \/ GenerateQualityMetrics

Spec == Init /\ [][Next]_vars

----------------------------------------------------------------------------
(* Claims about calculate_confidence (checked under SpecConfidence) *)

\* the number of findings of fs whose priority key is present and equals p
NumWithPriority(fs, p) ==
    Cardinality({i \in DOMAIN fs : "priority" \in DOMAIN fs[i] /\ fs[i].priority = p})

\* ret is calculate_confidence of prev's list with the one finding f appended
AppendedCall(f) ==
    /\ prev.op = "calculate_confidence"
    /\ ret.op = "calculate_confidence"
    /\ ret.findings = Append(prev.findings, f)

\* C1: for every finite findings list (priorities low, medium, high, critical
\* or no priority key) calculate_confidence lies in [0.0, 1.0].
C1_ConfidenceInUnitInterval ==
    ret.op = "calculate_confidence" => (ret.confidence >= 0 /\ ret.confidence <= 1000)

\* a list whose penalties exceed the base confidence: the lower clamp acts
C1_Witness ==
    /\ ret.op = "calculate_confidence"
    /\ 100 * NumWithPriority(ret.findings, "high")
         + 200 * NumWithPriority(ret.findings, "critical") > 800
    /\ ret.confidence = 0

\* C2: calculate_confidence is 0.9 on the empty list and
\* clamp(0.8 - 0.1*H - 0.2*C, 0.0, 1.0) on every other list, H and C the
\* numbers of high and of critical findings.
C2_ConfidenceFormula ==
    ret.op = "calculate_confidence" =>
        LET H == NumWithPriority(ret.findings, "high")
            C == NumWithPriority(ret.findings, "critical")
            raw == 800 - 100 * H - 200 * C
        IN  ret.confidence =
                IF Len(ret.findings) = 0 THEN 900
                ELSE IF raw < 0 THEN 0 ELSE IF raw > 1000 THEN 1000 ELSE raw

\* one high, one critical and other findings: 0.8 - 0.1 - 0.2
C2_Witness ==
    /\ ret.op = "calculate_confidence"
    /\ NumWithPriority(ret.findings, "high") = 1
    /\ NumWithPriority(ret.findings, "critical") = 1
    /\ Len(ret.findings) > 2
    /\ ret.confidence = 500

\* C3 as stated: appending a low or medium finding to any list, empty or
\* not, leaves the confidence unchanged.
C3_Original ==
    \A f \in SampleFindings :
        (AppendedCall(f) /\ DictGet(f, "priority", None) \in {"low", "medium"})
            => ret.confidence = prev.confidence

\* C3, amended: appending a low or medium finding to a non-empty list
\* leaves the confidence unchanged.
C3_LowMediumKeepConfidence ==
    \A f \in SampleFindings :
        (/\ AppendedCall(f)
         /\ DictGet(f, "priority", None) \in {"low", "medium"}
         /\ prev.findings # <<>>)
            => ret.confidence = prev.confidence

\* a medium finding appended to a list that holds a high finding
C3_Witness ==
    /\ AppendedCall([type |-> "issue", priority |-> "medium"])
    /\ NumWithPriority(prev.findings, "high") = 1
    /\ ret.confidence = 700

\* C4: appending one high or critical finding to any list never increases
\* the confidence.
C4_HighCriticalNeverIncrease ==
    \A f \in SampleFindings :
        (AppendedCall(f) /\ DictGet(f, "priority", None) \in {"high", "critical"})
            => ret.confidence <= prev.confidence

\* a critical finding appended to a list of one high finding: 0.7 becomes 0.5
C4_Witness ==
    /\ AppendedCall([type |-> "issue", priority |-> "critical"])
    /\ prev.findings = <<[type |-> "issue", priority |-> "high"]>>
    /\ prev.confidence = 700
    /\ ret.confidence = 500

----------------------------------------------------------------------------
(* Claims about detect_hallucinations and generate_quality_metrics         *)
(* (checked under Spec)                                                    *)

\* the last call was generate_quality_metrics on the project as it is
MetricsReturned == ret.op = "generate_quality_metrics"

\* the last call was detect_hallucinations on the project as it is
DetectReturned == ret.op = "detect_hallucinations"

\* the project holds none of the expert's artifacts
NoArtifacts == find_existing_data(expert, project) = <<>>

\* C5: for every expert, when the project contains none of that expert's
\* artifacts, generate_quality_metrics returns quality_score = 0.0 and
\* confidence = 0.3.
C5_NoArtifactsScoreZero ==
    MetricsReturned /\ NoArtifacts
        => ret.result.quality_score = 0 /\ ret.result.confidence = 300

\* the first recommendations of the form "No existing ... found"
NoExistingFound ==
    {"No existing code quality tool outputs found",
     "No existing test configuration found",
     "No existing build configuration found",
     "No existing architecture documentation found",
     "No existing model configuration found",
     "No existing CI/CD configuration found",
     "No existing MCP configuration found",
     "No existing security configuration found"}

\* C6: on an empty project directory, detect_hallucinations of every one of
\* the eight experts returns hallucinations = [], confidence = 0.3 and a
\* recommendation list whose first entry is of the form "No existing ...
\* found".
C6_EmptyProjectDetect ==
    DetectReturned /\ project = EmptyProject
        => /\ ret.result.hallucinations = <<>>
           /\ ret.result.confidence = 300
           /\ ret.result.recommendations # <<>>
           /\ ret.result.recommendations[1] \in NoExistingFound

\* the score each expert gives to a project whose artifacts show no issue
CleanScore(e) ==
    CASE e = "security" -> 100
      [] e = "code_quality" -> 100
      [] e = "test" -> 95
      [] e = "build" -> 88
      [] e = "architecture" -> 85
      [] e = "model" -> 92
      [] e = "devops" -> 90
      [] e = "mcp" -> 87

\* C7: for every expert, generate_quality_metrics on a project where the
\* expert's artifacts are present and detection yields zero findings returns
\* the highest quality_score that expert can ever return (no call returns a
\* higher one), together with confidence = 0.9.
C7_CleanProjectTopScore ==
    MetricsReturned
        => /\ ret.result.quality_score <= CleanScore(expert)
           /\ (~NoArtifacts /\ ret.result.issues_found = 0
                   => /\ ret.result.quality_score = CleanScore(expert)
                      /\ ret.result.confidence = 900)

\* an architecture project with a README that names its architecture, and
\* nothing to report, was measured
C7_Witness ==
    /\ MetricsReturned
    /\ expert = "architecture"
    /\ <<"README.md", "architecture">> \in project.facts
    /\ ~NoArtifacts
    /\ ret.result.issues_found = 0
    /\ ret.result.quality_score = 85
    /\ ret.result.confidence = 900

\* the bucket of a number of findings: 1 for 1 to 3, 2 for 4 to 7, 3 for 8
\* or more (0 for none)
Bucket(n) == IF n = 0 THEN 0 ELSE IF n <= 3 THEN 1 ELSE IF n <= 7 THEN 2 ELSE 3

\* C8: bucket monotonicity, for each fixed expert: every quality_score
\* returned with 1 to 3 findings is strictly greater than every quality_score
\* returned with 4 to 7 findings, which is strictly greater than every
\* quality_score returned with 8 or more findings, whatever the priorities of
\* the findings.  Stated on two successive generate_quality_metrics calls of
\* one expert: prev is the score of the earlier call, ret' the later result.
C8_BucketMonotonicity ==
    [][prev.op = "generate_quality_metrics" /\ ret'.op = "generate_quality_metrics"
          /\ project' = project
          => LET earlier == Bucket(prev.issues_found)
                 later == Bucket(ret'.result.issues_found)
             IN  /\ (earlier >= 1 /\ later > earlier
                        => prev.quality_score > ret'.result.quality_score)
                 /\ (later >= 1 /\ earlier > later
                        => ret'.result.quality_score > prev.quality_score)]_vars

----------------------------------------------------------------------------
(* Claims about assess_quality_impact (checked under SpecImpact) *)

\* change c is a risk for expert e: its type is in e's risk-type list or,
\* for the two content-based experts, its content makes a risk statement
\* be recorded
IsRiskChange(e, c) ==
    LET content == DictGet(c, "content", EmptyText)
    IN  CASE e = "security" ->
                 \/ \E w \in content.words : LowerWord(w) \in SecurityExpert_credential_words
                 \/ \E w \in content.words : LowerWord(w) \in SecurityExpert_injection_words
          [] e = "code_quality" ->
                 \/ content.lines > 10
                 \/ content.words \cap {"TODO", "FIXME", "import *"} # {}
          [] OTHER -> "type" \in DOMAIN c /\ c.type \in RiskTypes(e)

\* change c has one of e's benefit types
IsBenefitChange(e, c) == "type" \in DOMAIN c /\ c.type \in BenefitTypes(e)

\* C9: assess_quality_impact never returns risk_level "low" when at least
\* one supplied change is a risk for the expert, whatever precedes or
\* follows that change.
C9_RiskNeverLow ==
    (/\ ret.op = "assess_quality_impact"
     /\ \E i \in DOMAIN ret.changes : IsRiskChange(expert, ret.changes[i]))
        => ret.result.risk_level # "low"

\* C10: for each type-based expert, when every supplied change has a
\* benefit type (and so none has a risk type), risk_level is "low".
C10_BenefitsAloneStayLow ==
    (/\ ret.op = "assess_quality_impact"
     /\ expert \in TypeBasedExperts
     /\ ret.changes # <<>>
     /\ \A i \in DOMAIN ret.changes : IsBenefitChange(expert, ret.changes[i]))
        => ret.result.risk_level = "low"

\* the three ordinal risk levels
OrdinalRiskLevels == {"low", "medium", "high"}

\* C11: for every expert and every change list, the risk_level returned by
\* assess_quality_impact is one of the three ordinal levels low, medium,
\* high.
C11_RiskLevelOrdinal ==
    ret.op = "assess_quality_impact" => ret.result.risk_level \in OrdinalRiskLevels

----------------------------------------------------------------------------
(* suggest_fixes *)

\* issue[key] on a dictionary without the key
KeyError == [outcome |-> "raise", exception |-> "KeyError"]

\* the loop body appended nothing for the issue
NoFix == [outcome |-> "none"]

\* fixes.append(f)
Fix(f) == [outcome |-> "fix", fix |-> f]

\* the fix of the six experts that copy description and priority from the
\* issue: {"issue": issue, "fix": fix, "description": issue["description"],
\* "priority": issue["priority"], "source": source}
CopiedFix(issue, fix, source) ==
    IF {"description", "priority"} \subseteq DOMAIN issue
    THEN Fix([issue |-> issue, fix |-> fix, description |-> issue.description,
              priority |-> issue.priority, source |-> source])
    ELSE KeyError

\* the same with a description that does not read the issue
DescribedFix(issue, fix, description, source) ==
    IF "priority" \in DOMAIN issue
    THEN Fix([issue |-> issue, fix |-> fix, description |-> description,
              priority |-> issue.priority, source |-> source])
    ELSE KeyError

\* "for issue in issues: <body>; return fixes": outcomes[i] is what the body
\* does for the i-th issue.  An exception of the body leaves the loop and
\* the function: nothing is returned.
CollectFixes(outcomes) ==
    LET appended == SelectSeq(outcomes, LAMBDA o : o.outcome = "fix")
    IN  IF \E i \in DOMAIN outcomes : outcomes[i].outcome = "raise"
        THEN [raised |-> "KeyError"]
        ELSE [raised |-> None, fixes |-> [k \in DOMAIN appended |-> appended[k].fix]]

SecurityExpert_suggest_fix(issue) ==
    IF "type" \notin DOMAIN issue THEN KeyError
    ELSE IF issue.type = "security_vulnerability"
    THEN IF "pattern" \in DOMAIN issue
         THEN Fix([issue |-> issue,
                   fix |-> "Replace hardcoded credential with environment variable",
                   example |-> <<"# Replace: ", issue.pattern, "# With: os.getenv('CREDENTIAL_KEY')">>,
                   priority |-> "high"])
         ELSE KeyError
    ELSE IF issue.type = "subprocess_vulnerability"
    THEN Fix([issue |-> issue,
              fix |-> "Replace subprocess call with native Python operation",
              example |-> "# Replace subprocess.call with native Python libraries",
              priority |-> "critical"])
    ELSE NoFix

SecurityExpert_suggest_fixes(issues) ==
    CollectFixes([i \in DOMAIN issues |-> SecurityExpert_suggest_fix(issues[i])])

CodeQualityExpert_suggest_fix(issue) ==
    IF "type" \notin DOMAIN issue THEN KeyError
    ELSE IF issue.type = "code_quality_issue"
    THEN IF {"code", "description"} \subseteq DOMAIN issue
         THEN Fix([issue |-> issue, fix |-> "Fix code quality issue",
                   description |-> <<"Address ", issue.code, ": ", issue.description>>,
                   priority |-> "medium", source |-> "existing_tool_output"])
         ELSE KeyError
    ELSE IF issue.type = "formatting_config"
    THEN Fix([issue |-> issue, fix |-> "Configure Black formatter",
              description |-> "Set up Black formatting rules in pyproject.toml",
              priority |-> "low", source |-> "existing_config"])
    ELSE IF issue.type = "type_checking_config"
    THEN Fix([issue |-> issue, fix |-> "Configure MyPy type checker",
              description |-> "Set up MyPy type checking rules",
              priority |-> "low", source |-> "existing_config"])
    ELSE NoFix

CodeQualityExpert_suggest_fixes(issues) ==
    CollectFixes([i \in DOMAIN issues |-> CodeQualityExpert_suggest_fix(issues[i])])

TestExpert_suggest_fix(issue) ==
    IF "type" \notin DOMAIN issue THEN KeyError
    ELSE IF issue.type = "test_config_issue"
    THEN CopiedFix(issue, "Fix test configuration", "existing_config")
    ELSE IF issue.type = "test_failure"
    THEN DescribedFix(issue, "Fix failing tests",
                      "Review and fix the failing tests identified in results", "existing_output")
    ELSE IF issue.type = "coverage_low"
    THEN IF "description" \in DOMAIN issue
         THEN DescribedFix(issue, "Improve test coverage",
                           <<"Add more tests to reach ", issue.description>>,
                           "existing_output")
         ELSE KeyError
    ELSE NoFix

TestExpert_suggest_fixes(issues) ==
    CollectFixes([i \in DOMAIN issues |-> TestExpert_suggest_fix(issues[i])])

BuildExpert_suggest_fix(issue) ==
    IF "type" \notin DOMAIN issue THEN KeyError
    ELSE IF issue.type = "build_config_issue"
    THEN CopiedFix(issue, "Fix build configuration", "existing_config")
    ELSE IF issue.type = "build_failure"
    THEN DescribedFix(issue, "Fix build failures",
                      "Review and fix the build failures identified in logs", "existing_logs")
    ELSE NoFix

BuildExpert_suggest_fixes(issues) ==
    CollectFixes([i \in DOMAIN issues |-> BuildExpert_suggest_fix(issues[i])])

ArchitectureExpert_suggest_fix(issue) ==
    IF "type" \notin DOMAIN issue THEN KeyError
    ELSE IF issue.type = "documentation_issue"
    THEN CopiedFix(issue, "Improve architecture documentation", "existing_docs")
    ELSE IF issue.type = "structure_issue"
    THEN CopiedFix(issue, "Improve code structure", "existing_structure")
    ELSE IF issue.type = "dependency_issue"
    THEN CopiedFix(issue, "Fix dependency management", "existing_config")
    ELSE NoFix

ArchitectureExpert_suggest_fixes(issues) ==
    CollectFixes([i \in DOMAIN issues |-> ArchitectureExpert_suggest_fix(issues[i])])

ModelExpert_suggest_fix(issue) ==
    IF "type" \notin DOMAIN issue THEN KeyError
    ELSE IF issue.type = "model_config_issue"
    THEN CopiedFix(issue, "Fix model configuration", "existing_config")
    ELSE IF issue.type = "model_failure"
    THEN DescribedFix(issue, "Fix model failures",
                      "Review and fix the model failures identified in logs", "existing_logs")
    ELSE NoFix

ModelExpert_suggest_fixes(issues) ==
    CollectFixes([i \in DOMAIN issues |-> ModelExpert_suggest_fix(issues[i])])

DevOpsExpert_suggest_fix(issue) ==
    IF "type" \notin DOMAIN issue THEN KeyError
    ELSE IF issue.type = "ci_config_issue"
    THEN CopiedFix(issue, "Fix CI/CD configuration", "existing_config")
    ELSE IF issue.type = "security_issue"
    THEN CopiedFix(issue, "Address security concern", "existing_config")
    ELSE IF issue.type = "deployment_issue"
    THEN CopiedFix(issue, "Fix deployment configuration", "existing_config")
    ELSE NoFix

DevOpsExpert_suggest_fixes(issues) ==
    CollectFixes([i \in DOMAIN issues |-> DevOpsExpert_suggest_fix(issues[i])])

MCPExpert_suggest_fix(issue) ==
    IF "type" \notin DOMAIN issue THEN KeyError
    ELSE IF issue.type = "mcp_config_issue"
    THEN CopiedFix(issue, "Fix MCP configuration", "existing_config")
    ELSE IF issue.type = "mcp_failure"
    THEN DescribedFix(issue, "Fix MCP failures",
                      "Review and fix the MCP failures identified in logs", "existing_logs")
    ELSE NoFix

MCPExpert_suggest_fixes(issues) ==
    CollectFixes([i \in DOMAIN issues |-> MCPExpert_suggest_fix(issues[i])])

\* expert.suggest_fixes(issues)
suggest_fixes(e, issues) ==
    CASE e = "security" -> SecurityExpert_suggest_fixes(issues)
      [] e = "code_quality" -> CodeQualityExpert_suggest_fixes(issues)
      [] e = "test" -> TestExpert_suggest_fixes(issues)
      [] e = "build" -> BuildExpert_suggest_fixes(issues)
      [] e = "architecture" -> ArchitectureExpert_suggest_fixes(issues)
      [] e = "model" -> ModelExpert_suggest_fixes(issues)
      [] e = "devops" -> DevOpsExpert_suggest_fixes(issues)
      [] e = "mcp" -> MCPExpert_suggest_fixes(issues)

\* the finding types the if/elif chain of the expert's suggest_fixes tests for
RecognisedTypes(e) ==
    CASE e = "security" -> {"security_vulnerability", "subprocess_vulnerability"}
      [] e = "code_quality" -> {"code_quality_issue", "formatting_config", "type_checking_config"}
      [] e = "test" -> {"test_config_issue", "test_failure", "coverage_low"}
      [] e = "build" -> {"build_config_issue", "build_failure"}
      [] e = "architecture" -> {"documentation_issue", "structure_issue", "dependency_issue"}
      [] e = "model" -> {"model_config_issue", "model_failure"}
      [] e = "devops" -> {"ci_config_issue", "security_issue", "deployment_issue"}
      [] e = "mcp" -> {"mcp_config_issue", "mcp_failure"}

----------------------------------------------------------------------------
(* The caller of suggest_fixes: it holds one expert and a list of issues,  *)
(* and asks the expert for fixes.                                          *)

\* a finding type outside the expert's suggest_fixes chain
OtherType(e) ==
    CASE e = "test" -> "test_skipped"
      [] e = "devops" -> "log_analysis"
      [] e = "code_quality" -> "ci_quality_integration"
      [] OTHER -> "unknown_issue"

\* the issues the caller builds lists from: complete ones of every type, and
\* ones that lack the type, the priority, or the fields the fix text reads
SampleIssues(e) ==
    LET t == CHOOSE x \in RecognisedTypes(e) : x \notin {"subprocess_vulnerability", "test_failure"}
    IN  {[type |-> ty, description |-> "d", priority |-> pr, pattern |-> "p", code |-> "E501"] :
            ty \in RecognisedTypes(e) \cup {OtherType(e)}, pr \in {"low", "critical"}}
        \cup {[priority |-> "high"],
              [type |-> t, priority |-> "high"],
              [type |-> t, description |-> "d", pattern |-> "p", code |-> "E501"]}

InitFixes ==
    /\ expert \in Experts
    /\ project = EmptyProject
    /\ findings \in SeqsUpTo(SampleIssues(expert), MaxIssues)
    /\ changes = <<>>
    /\ ret = NoCall
    /\ prev = NoCall

\* fixes = await expert.suggest_fixes(issues)
SuggestFixes ==
    /\ ret.op = "none"
    /\ ret' = [op |-> "suggest_fixes", issues |-> findings,
               result |-> suggest_fixes(expert, findings)]
    /\ UNCHANGED <<expert, project, findings, changes, prev>>

NextFixes == SuggestFixes

SpecFixes == InitFixes /\ [][NextFixes]_vars

----------------------------------------------------------------------------
(* Claims about suggest_fixes (checked under SpecFixes) *)

\* suggest_fixes was called and returned a list of fixes
FixesReturned == ret.op = "suggest_fixes" /\ ret.result.raised = None

\* the issues the returned fixes refer to, in the order of the fixes
FixedIssues == [k \in DOMAIN ret.result.fixes |-> ret.result.fixes[k].issue]

\* C12: for every expert and every list of findings, suggest_fixes returns
\* exactly one Fix for each finding whose type is in the expert's recognised
\* vocabulary and no Fix for any other finding, and it never raises,
\* including for findings that lack optional fields such as type, pattern,
\* code or description.
C12_OneFixPerRecognisedFinding ==
    ret.op = "suggest_fixes"
        => /\ ret.result.raised = None
           /\ FixedIssues = SelectSeq(ret.issues,
                                      LAMBDA i : DictGet(i, "type", None) \in RecognisedTypes(expert))

\* C13: every Fix returned by suggest_fixes carries the priority of the issue
\* it was generated from, for every expert and every recognised finding
\* whatever its priority, and the fixes appear in the order of the issues
\* they refer to.
C13_FixInheritsPriority ==
    FixesReturned
        => /\ \A k \in DOMAIN ret.result.fixes :
                  "priority" \in DOMAIN ret.result.fixes[k].issue
                      => ret.result.fixes[k].priority = ret.result.fixes[k].issue.priority
           /\ FixedIssues = SelectSeq(ret.issues,
                                      LAMBDA i : \E k \in DOMAIN FixedIssues : FixedIssues[k] = i)

----------------------------------------------------------------------------
(* Claims about SecurityExpert.detect_hallucinations (checked under Spec)  *)

\* the security expert scanned a project whose only python file is main.py
OnlyMainScanned ==
    /\ expert = "security"
    /\ DetectReturned
    /\ RGlob(project, "", ".py") = <<"main.py">>

\* the patterns of subprocess usage
SubprocessWords ==
    {SecurityExpert_subprocess_patterns[i] : i \in DOMAIN SecurityExpert_subprocess_patterns}

\* C14: for a project whose only Python file uses subprocess (for example it
\* contains both "import subprocess" and a subprocess.run call), the security
\* expert returns exactly one finding, of type subprocess_vulnerability and
\* priority critical, and a confidence below 0.9; the number of subprocess
\* patterns the file matches does not change the count.
C14_OneSubprocessFinding ==
    (/\ OnlyMainScanned
     /\ WordsOf(project, "main.py") # {}
     /\ WordsOf(project, "main.py") \subseteq SubprocessWords)
        => /\ Len(ret.result.hallucinations) = 1
           /\ ret.result.hallucinations[1].type = "subprocess_vulnerability"
           /\ ret.result.hallucinations[1].priority = "critical"
           /\ ret.result.confidence < 900

\* C15: for a project whose only Python file contains one hard-coded
\* credential matching the sk- pattern and no subprocess usage (the file
\* holds one credential and nothing else of interest), the security expert
\* returns exactly one finding, of type security_vulnerability and priority
\* high, with confidence below 0.9.
C15_OneCredentialFinding ==
    (/\ OnlyMainScanned
     /\ Cardinality(WordsOf(project, "main.py")) = 1
     /\ ReSearch("sk-[a-zA-Z0-9]{48}", ReadText(project, "main.py")))
        => /\ Len(ret.result.hallucinations) = 1
           /\ ret.result.hallucinations[1].type = "security_vulnerability"
           /\ ret.result.hallucinations[1].priority = "high"
           /\ ret.result.confidence < 900

----------------------------------------------------------------------------
(* Failing artifacts *)

\* the conditions under which reading or parsing an artifact fails
FailureConditions == {"#unreadable", "#malformed", "#locked"}

\* the artifacts of the project whose reading or parsing fails
FailingArtifacts(p) == {path \in p.exists : WordsOf(p, path) \cap FailureConditions # {}}

\* C16: when reading or parsing exactly one artifact of the project fails (an
\* I/O error or malformed content, during discovery and directory scans
\* included), detect_hallucinations of every expert returns a result and
\* raises no exception.
C16_DetectSurvivesFailingArtifact ==
    Cardinality(FailingArtifacts(project)) = 1
        => ~(ret.op = "raised" /\ ret.call = "detect_hallucinations")

\* the words saying that an entry of the parsed content makes the loop over
\* the entries raise
RaisingEntries ==
    {"entry[0]:str", "entry[1]:str", "entry[2]:str",
     "services[0]:null", "services[1]:null", "services[0]:str", "services[1]:str",
     "containers[0]:null", "containers[1]:null", "containers[0]:str", "containers[1]:str"}

\* reading, parsing or processing the artifact raises inside the try block
\* of its analysis
ProcessingRaises(p, path) ==
    /\ Exists(p, path)
    /\ ParseRaises(p, path) \/ WordsOf(p, path) \cap RaisingEntries # {}

\* the finding h was made from the artifact at path: it names the artifact
\* as its file, or it is an entry of the only flake8 report of the project
ContributedBy(p, h, path) ==
    \/ DictGet(h, "file", None) = path
    \/ /\ path = "flake8_report.json"
       /\ DictGet(h, "tool", None) = "flake8"
       /\ ~Exists(p, "flake8_report.txt") /\ ~Exists(p, ".flake8")

\* C17: an artifact whose reading, parsing or processing raises contributes
\* no findings to the result of detect_hallucinations, also when the
\* exception comes after valid entries of the artifact were processed.
C17_FailingArtifactContributesNothing ==
    DetectReturned =>
        \A path \in project.exists :
            ProcessingRaises(project, path) =>
                \A i \in DOMAIN ret.result.hallucinations :
                    ~ContributedBy(project, ret.result.hallucinations[i], path)

----------------------------------------------------------------------------
(* The shape of the result of assess_quality_impact *)

\* the key under which the expert returns its list of risk statements
RiskListKey(e) ==
    CASE e = "security" -> "security_risks"
      [] e = "code_quality" -> "quality_risks"
      [] e = "test" -> "test_quality_risks"
      [] e = "architecture" -> "arch_quality_risks"
      [] e = "build" -> "build_quality_risks"
      [] e = "model" -> "model_quality_risks"
      [] e = "devops" -> "devops_quality_risks"
      [] e = "mcp" -> "mcp_quality_risks"

\* x is a python list
IsList(x) == DOMAIN x = 1..Len(x)

\* C18: for every expert and every list of changes, each with a type tag
\* and a content that may be absent or empty, assess_quality_impact returns
\* a result that holds quality_impact, risk_level, a list of risk statements
\* and a list of recommendations; it does not raise.
C18_ImpactWellFormed ==
    ret.op = "assess_quality_impact" =>
        /\ {"quality_impact", "risk_level", RiskListKey(expert), "recommendations"}
               \subseteq DOMAIN ret.result
        /\ IsList(ret.result[RiskListKey(expert)])
        /\ IsList(ret.result.recommendations)

\* a call with a change without content and a change with empty content
C18_Witness ==
    /\ ret.op = "assess_quality_impact"
    /\ \E i \in DOMAIN ret.changes : "content" \notin DOMAIN ret.changes[i]
    /\ \E i \in DOMAIN ret.changes :
           "content" \in DOMAIN ret.changes[i] /\ ret.changes[i].content = EmptyText
    /\ IsList(ret.result[RiskListKey(expert)])

----------------------------------------------------------------------------
(* Confidence and findings *)

\* C19: the confidence of every result of detect_hallucinations is a
\* function of its findings alone: it equals calculate_confidence of the
\* findings of the result, for every expert and every project, so that two
\* results with equal findings have equal confidence.
C19_ConfidenceFromFindingsAlone ==
    DetectReturned =>
        ret.result.confidence = calculate_confidence(ret.result.hallucinations)

----------------------------------------------------------------------------
(* The fields of the quality metrics *)

\* the fields every expert's metrics are to hold
MetricsFields == {"quality_score", "issues_found", "recommendations", "confidence", "total_issues"}

\* C20: generate_quality_metrics of every expert returns a mapping with the
\* five fields quality_score, issues_found, recommendations, confidence and
\* total_issues, and issues_found = total_issues = the number of findings
\* of the detection pass.
C20_MetricsFieldSet ==
    MetricsReturned =>
        /\ MetricsFields \subseteq DOMAIN ret.result
        /\ ret.result.issues_found = Len(detect_hallucinations(expert, project).hallucinations)
        /\ ret.result.total_issues = ret.result.issues_found

----------------------------------------------------------------------------
(* The range of the quality score *)

\* C21: for every expert and every project, the quality_score returned by
\* generate_quality_metrics lies in [0, 100].
C21_QualityScoreInRange ==
    MetricsReturned => (ret.result.quality_score >= 0 /\ ret.result.quality_score <= 100)

\* security findings whose penalties exceed 100: the clamp at 0 acts
C21_Witness ==
    /\ MetricsReturned
    /\ expert = "security"
    /\ 25 * CountPriority(ret.result.security_issues, "critical")
         + 15 * CountPriority(ret.result.security_issues, "high") > 100
    /\ ret.result.quality_score = 0

----------------------------------------------------------------------------
(* The caller of the scoring functions: it scores a findings list with     *)
(* calculate_confidence, the two penalty scores and calculate_risk_score,  *)
(* and may then exchange two neighbouring findings, or give a finding that *)
(* has no priority the priority "medium", and score the list again.        *)

\* what the four scoring functions return for the findings fs
Scores(fs) ==
    [op |-> "score", findings |-> fs,
     confidence |-> calculate_confidence(fs),
     security_quality_score |-> SecurityExpert_quality_score(fs),
     code_quality_score |-> CodeQualityExpert_quality_score(fs),
     risk_score |-> SecurityExpert_calculate_risk_score(fs)]

InitScoring ==
    /\ expert = "none"
    /\ project = EmptyProject
    /\ findings \in SeqsUpTo(SampleFindings, MaxFindings)
    /\ changes = <<>>
    /\ ret = NoCall
    /\ prev = NoCall

ScoreFindings ==
    /\ ret.op = "none"
    /\ ret' = Scores(findings)
    /\ UNCHANGED <<expert, project, findings, changes, prev>>

\* findings[i], findings[i + 1] = findings[i + 1], findings[i]
SwapAndScore(i) ==
    /\ ret.op = "score"
    /\ i \in 1..(Len(findings) - 1)
    /\ findings[i] # findings[i + 1]
    /\ findings' = [findings EXCEPT ![i] = findings[i + 1], ![i + 1] = findings[i]]
    /\ prev' = ret
    /\ ret' = Scores(findings')
    /\ UNCHANGED <<expert, project, changes>>

\* findings[i]["priority"] = "medium", for a finding that had no priority
SetMediumAndScore(i) ==
    /\ ret.op = "score"
    /\ i \in DOMAIN findings
    /\ "priority" \notin DOMAIN findings[i]
    /\ findings' = [findings EXCEPT ![i] = [type |-> "issue", priority |-> "medium"]]
    /\ prev' = ret
    /\ ret' = Scores(findings')
    /\ UNCHANGED <<expert, project, changes>>

NextScoring ==
    \/ ScoreFindings
    \/ \E i \in 1..MaxFindings : SwapAndScore(i)
    \/ \E i \in 1..MaxFindings : SetMediumAndScore(i)

SpecScoring == InitScoring /\ [][NextScoring]_vars

\* the last two calls scored a list and the same list with the priority of
\* its i-th finding, which had none, set to "medium"
DefaultedCall(i) ==
    /\ prev.op = "score"
    /\ ret.op = "score"
    /\ i \in DOMAIN prev.findings
    /\ "priority" \notin DOMAIN prev.findings[i]
    /\ ret.findings = [prev.findings EXCEPT ![i] = [type |-> "issue", priority |-> "medium"]]

\* C22: in every scoring function (calculate_confidence, the quality score
\* penalties of the security and the code quality expert, and
\* calculate_risk_score) a finding without a priority key is scored as the
\* same finding with priority "medium".
C22_NoPriorityScoresAsMedium ==
    \A i \in 1..MaxFindings :
        DefaultedCall(i) =>
            /\ ret.confidence = prev.confidence
            /\ ret.security_quality_score = prev.security_quality_score
            /\ ret.code_quality_score = prev.code_quality_score
            /\ ret.risk_score = prev.risk_score

\* the lists a and b hold the same findings, each as often, in any order
IsPermutation(a, b) ==
    /\ Len(a) = Len(b)
    /\ \A f \in SampleFindings :
           Cardinality({i \in DOMAIN a : a[i] = f}) = Cardinality({i \in DOMAIN b : b[i] = f})

\* C23: calculate_confidence is order-independent: a findings list and every
\* permutation of it have the same confidence.
C23_ConfidenceOrderIndependent ==
    (/\ prev.op = "score" /\ ret.op = "score"
     /\ IsPermutation(prev.findings, ret.findings))
        => ret.confidence = prev.confidence

\* a high finding moved away from the head of a list
C23_Witness ==
    /\ prev.op = "score" /\ ret.op = "score"
    /\ IsPermutation(prev.findings, ret.findings)
    /\ DictGet(prev.findings[1], "priority", None) = "high"
    /\ DictGet(ret.findings[1], "priority", None) = "low"
    /\ ret.confidence = 700

\* C24: calculate_risk_score is 0.0 on the empty list and otherwise
\* min(10.0, sum of the weights), the weight of an issue being 10 for
\* critical, 5 for high, 2 for medium and 1 for every other priority; one
\* low issue scores 1.0, one high issue 5.0, one critical issue 10.0, and
\* the score never exceeds 10.0.
C24_RiskScoreFormula ==
    ret.op = "score" =>
        LET fs == ret.findings
            sum == 10 * NumWithPriority(fs, "critical") + 5 * NumWithPriority(fs, "high")
                     + 2 * NumWithPriority(fs, "medium")
                     + (Len(fs) - NumWithPriority(fs, "critical") - NumWithPriority(fs, "high")
                               - NumWithPriority(fs, "medium"))
        IN  /\ ret.risk_score = IF Len(fs) = 0 THEN 0 ELSE IF sum > 10 THEN 10 ELSE sum
            /\ ret.risk_score <= 10
            /\ fs = <<[type |-> "issue", priority |-> "low"]>> => ret.risk_score = 1
            /\ fs = <<[type |-> "issue", priority |-> "high"]>> => ret.risk_score = 5
            /\ fs = <<[type |-> "issue", priority |-> "critical"]>> => ret.risk_score = 10

\* issues whose weights sum to more than 10 without a critical one: the cap acts
C24_Witness ==
    /\ ret.op = "score"
    /\ NumWithPriority(ret.findings, "critical") = 0
    /\ NumWithPriority(ret.findings, "high") = 2
    /\ NumWithPriority(ret.findings, "medium") = 1
    /\ ret.risk_score = 10

----------------------------------------------------------------------------
(* The coverage report *)

\* coverage.xml parses and holds a coverage element, the document root or
\* one below it, whose line-rate is a number below 0.8
LowCoverageReport(p) ==
    /\ Exists(p, "coverage.xml")
    /\ ~ParseRaises(p, "coverage.xml")
    /\ WordsOf(p, "coverage.xml") \cap {"<coverage>/", "<coverage>"} # {}
    /\ WordsOf(p, "coverage.xml") \cap {"line-rate>=0.8", "line-rate=?"} = {}

\* C25: when coverage.xml holds a coverage report whose line-rate is below
\* 0.8, on the coverage element of the report (the document root of a
\* standard report), TestExpert.detect_hallucinations returns a finding of
\* type coverage_low with priority medium.
C25_LowCoverageReported ==
    (DetectReturned /\ expert = "test" /\ LowCoverageReport(project)) =>
        \E i \in DOMAIN ret.result.hallucinations :
            /\ ret.result.hallucinations[i].type = "coverage_low"
            /\ ret.result.hallucinations[i].priority = "medium"

----------------------------------------------------------------------------
(* The caller of the five public operations.  It sets a small project up,  *)
(* then calls operations of its expert on it.  ret is the outcome of the   *)
(* last call; prev is the outcome of the call before it when that was the  *)
(* same operation with the same arguments, and NoCall otherwise.           *)

MaxCallArtifacts == 2
MaxCallFacts == 2

Operations ==
    {"detect_hallucinations", "suggest_fixes", "generate_quality_metrics",
     "provide_quality_recommendations", "assess_quality_impact"}

\* the operations that take project_path
ProjectOperations ==
    {"detect_hallucinations", "generate_quality_metrics", "provide_quality_recommendations"}

\* the variant in which a call leaves a report file behind in the project
ProjectAfter_report(op, p) ==
    IF op \in ProjectOperations
    THEN [p EXCEPT !.exists = @ \cup {"flake8_report.json", "build.log", "coverage.xml",
                                      "README.md", "training.log", "deployment.log",
                                      "mcp.log", "main.py"}]
    ELSE p

\* the project after a call: no operation creates, writes or deletes a file
ProjectAfter(op, p) == p

\* expert.provide_quality_recommendations(project_path)
provide_quality_recommendations(e, p) == detect_hallucinations(e, p).recommendations

\* the outcome of the call of op; issues is the argument of suggest_fixes,
\* cs the argument of assess_quality_impact
CallOutcome(op, e, p, issues, cs) ==
    CASE op = "suggest_fixes" ->
             [op |-> op, issues |-> issues, result |-> suggest_fixes(e, issues)]
      [] op = "assess_quality_impact" ->
             [op |-> op, changes |-> cs, result |-> assess_quality_impact(e, cs)]
      [] op \in ProjectOperations /\ detect_hallucinations_raises(e, p) ->
             Raised(op, "PermissionError")
      [] op = "detect_hallucinations" -> [op |-> op, result |-> detect_hallucinations(e, p)]
      [] op = "generate_quality_metrics" -> [op |-> op, result |-> generate_quality_metrics(e, p)]
      [] op = "provide_quality_recommendations" ->
             [op |-> op, result |-> provide_quality_recommendations(e, p)]

\* the call a recorded outcome belongs to, with its arguments
CallOf(r) ==
    CASE r.op = "raised" -> <<r.call>>
      [] r.op = "suggest_fixes" -> <<r.op, r.issues>>
      [] r.op = "assess_quality_impact" -> <<r.op, r.changes>>
      [] OTHER -> <<r.op>>

InitCalls ==
    /\ expert \in Experts
    /\ project = EmptyProject
    /\ findings = <<>>
    /\ changes = <<>>
    /\ ret = NoCall
    /\ prev = NoCall

\* the project is set up before the first call
SetUp ==
    /\ ret = NoCall /\ prev = NoCall
    /\ \/ /\ Cardinality(project.exists) < MaxCallArtifacts
          /\ \E path \in SamplePaths(expert) : CreateArtifact(path)
       \/ /\ Cardinality(project.facts) < MaxCallFacts
          /\ \E f \in SampleFacts(expert) : WriteContent(f[1], f[2])

\* findings = (await expert.detect_hallucinations(project_path)).hallucinations:
\* the caller keeps the findings for a later suggest_fixes
KeepFindings ==
    /\ ret.op = "detect_hallucinations"
    /\ findings # ret.result.hallucinations
    /\ findings' = ret.result.hallucinations
    /\ UNCHANGED <<expert, project, changes, ret, prev>>

\* result = await expert.<op>(...)
Call(op, cs) ==
    /\ ret' = CallOutcome(op, expert, project, findings, cs)
    /\ prev' = IF ret.op # "none" /\ CallOf(ret) = CallOf(ret') THEN ret ELSE NoCall
    /\ project' = ProjectAfter(op, project)
    /\ UNCHANGED <<expert, findings, changes>>

NextCalls ==
    \/ SetUp
    \/ KeepFindings
    \/ \E op \in Operations \ {"assess_quality_impact"} : Call(op, <<>>)
    \/ \E cs \in SeqsUpTo(SampleChanges(expert), 1) : Call("assess_quality_impact", cs)

SpecCalls == InitCalls /\ [][NextCalls]_vars

C28_EveryDetectedFindingFixed ==
    (/\ ret.op = "suggest_fixes"
     /\ ~detect_hallucinations_raises(expert, project)
     /\ ret.issues = detect_hallucinations(expert, project).hallucinations)
        => /\ ret.result.raised = None
           /\ Len(ret.result.fixes) = Len(ret.issues)

----------------------------------------------------------------------------
(* The severity of a list of changes *)

\* the rank of a risk level
SeverityRank(level) ==
    CASE level = "low" -> 0 [] level = "medium" -> 1 [] level = "high" -> 2 [] level = "critical" -> 3

\* the highest risk level the checks of the expert set for the one change
TriggeredSeverity(e, change) ==
    LET content == DictGet(change, "content", EmptyText)
    IN  IF e = "security"
        THEN IF ContainsAny(Lower(content), SecurityExpert_injection_words) THEN "critical"
             ELSE IF ContainsAny(Lower(content), SecurityExpert_credential_words) THEN "high"
             ELSE "low"
        ELSE IF content.lines > 10 \/ Contains(content, "import *") THEN "medium"
             ELSE "low"

\* C29: for SecurityExpert and CodeQualityExpert the risk_level returned by
\* assess_quality_impact is the highest severity triggered by any change of
\* the list, whatever the order of the changes: a later change of lower
\* severity does not lower the level an earlier change set.
C29_RiskLevelIsHighestSeverity ==
    (ret.op = "assess_quality_impact" /\ expert \in {"security", "code_quality"}) =>
        /\ \A i \in DOMAIN ret.changes :
               SeverityRank(ret.result.risk_level)
                   >= SeverityRank(TriggeredSeverity(expert, ret.changes[i]))
        /\ ret.changes # <<>> =>
               \E i \in DOMAIN ret.changes :
                   ret.result.risk_level = TriggeredSeverity(expert, ret.changes[i])

----------------------------------------------------------------------------
(* generate_quality_metrics of the bucket-scored experts, in its two       *)
(* steps: the detection pass, then the second artifact discovery and the   *)
(* score.  Between the two steps another process may create or delete an   *)
(* artifact of the project.  While the call runs, ret holds the result of  *)
(* its detection pass under the op "detected".                             *)

BucketScoredExperts == {"test", "architecture", "build", "devops", "model", "mcp"}

\* the second half of expert.generate_quality_metrics(project_path)
quality_metrics(e, result, data) ==
    CASE e = "test" -> TestExpert_quality_metrics(result, data)
      [] e = "architecture" -> ArchitectureExpert_quality_metrics(result, data)
      [] e = "build" -> BuildExpert_quality_metrics(result, data)
      [] e = "devops" -> DevOpsExpert_quality_metrics(result, data)
      [] e = "model" -> ModelExpert_quality_metrics(result, data)
      [] e = "mcp" -> MCPExpert_quality_metrics(result, data)

InitSnapshot ==
    /\ expert \in BucketScoredExperts
    /\ project = EmptyProject
    /\ findings = <<>>
    /\ changes = <<>>
    /\ ret = NoCall
    /\ prev = NoCall

\* result = await self.detect_hallucinations(project_path)
MetricsDetectionPass ==
    /\ ret.op = "none"
    /\ ret' = IF detect_hallucinations_raises(expert, project)
              THEN Raised("generate_quality_metrics", "PermissionError")
              ELSE [op |-> "detected", result |-> detect_hallucinations(expert, project)]
    /\ UNCHANGED <<expert, project, findings, changes, prev>>

\* another process creates an artifact while the call runs
ConcurrentCreate(path) ==
    /\ ret.op = "detected"
    /\ path \notin project.exists
    /\ Parent(path) = "" \/ Parent(path) \in project.exists
    /\ Cardinality(project.exists) < MaxCallArtifacts
    /\ project' = [project EXCEPT !.exists = @ \cup {path}]
    /\ UNCHANGED <<expert, findings, changes, ret, prev>>

\* another process deletes an artifact while the call runs
ConcurrentDelete(path) ==
    /\ ret.op = "detected"
    /\ path \in project.exists
    /\ \A other \in project.exists : Parent(other) # path
    /\ project' = [exists |-> project.exists \ {path},
                   facts |-> {f \in project.facts : f[1] # path}]
    /\ UNCHANGED <<expert, findings, changes, ret, prev>>

\* data = await self._find_existing_..._data(project_path), the score and
\* the return
MetricsDiscoveryAndScore ==
    /\ ret.op = "detected"
    /\ ret' = [op |-> "generate_quality_metrics",
               result |-> quality_metrics(expert, ret.result,
                                          find_existing_data(expert, project))]
    /\ UNCHANGED <<expert, project, findings, changes, prev>>

NextSnapshot ==
    \/ SetUp
    \/ MetricsDetectionPass
    \/ \E path \in SamplePaths(expert) : ConcurrentCreate(path)
    \/ \E path \in SamplePaths(expert) : ConcurrentDelete(path)
    \/ MetricsDiscoveryAndScore

SpecSnapshot == InitSnapshot /\ [][NextSnapshot]_vars

\* C30: generate_quality_metrics of each bucket-scored expert describes one
\* snapshot of the project also when artifacts are created or deleted
\* between its detection pass and its second artifact discovery: the
\* quality_score is the 0.0 floor exactly when the confidence is 0.3 and
\* issues_found is 0, and it is never 0.0 together with issues_found > 0.
C30_MetricsDescribeOneSnapshot ==
    MetricsReturned =>
        /\ ret.result.quality_score = 0
               <=> (ret.result.confidence = 300 /\ ret.result.issues_found = 0)
        /\ ~(ret.result.quality_score = 0 /\ ret.result.issues_found > 0)

----------------------------------------------------------------------------
(* detect_hallucinations of several experts run concurrently over one      *)
(* project.  Each call is a task that goes through its steps: the          *)
(* discovery, then its analyzers one after the other, each extending the   *)
(* task's own hallucinations list; the steps of the tasks interleave in    *)
(* any order.  Here expert is the set of the experts run together and ret  *)
(* holds the tasks.                                                        *)

\* the groups of experts run together
Teams == {{"code_quality", "devops"}, {"test", "build"},
          {"security", "architecture"}, {"model", "mcp"}}

\* what the analyzers of detect_hallucinations return, in the order of the
\* calls.  SecurityExpert has one loop over the python files and no analyzers.
Phases(e, p) ==
    CASE e = "security" -> <<SecurityExpert_detect_hallucinations(p).hallucinations>>
      [] e = "code_quality" -> <<CodeQualityExpert_analyze_existing_flake8_outputs(p),
                                 CodeQualityExpert_analyze_existing_black_outputs(p),
                                 CodeQualityExpert_analyze_existing_mypy_outputs(p),
                                 CodeQualityExpert_analyze_existing_ci_logs(p)>>
      [] e = "test" -> <<TestExpert_analyze_test_config(p),
                         TestExpert_analyze_test_outputs(p),
                         TestExpert_analyze_coverage_reports(p)>>
      [] e = "build" -> <<BuildExpert_analyze_build_config(p), BuildExpert_analyze_build_logs(p)>>
      [] e = "architecture" -> <<ArchitectureExpert_analyze_architecture_docs(p),
                                 ArchitectureExpert_analyze_code_structure(p),
                                 ArchitectureExpert_analyze_dependencies(p)>>
      [] e = "model" -> <<ModelExpert_analyze_model_config(p), ModelExpert_analyze_model_outputs(p)>>
      [] e = "devops" -> <<DevOpsExpert_analyze_ci_cd_config(p),
                           DevOpsExpert_analyze_deployment_config(p),
                           DevOpsExpert_analyze_infrastructure_config(p),
                           DevOpsExpert_analyze_existing_logs(p)>>
      [] e = "mcp" -> <<MCPExpert_analyze_mcp_config(p), MCPExpert_analyze_mcp_logs(p)>>

\* step k of the task raises (step 0 is the discovery)
PhaseRaises(e, k, p) ==
    \/ e = "code_quality" /\ k = 0 /\ CodeQualityExpert_find_existing_tool_outputs_raises(p)
    \/ e = "devops" /\ k = 1 /\ DevOpsExpert_analyze_ci_cd_config_raises(p)
    \/ e = "test" /\ k = 3 /\ TestExpert_analyze_coverage_reports_raises(p)

\* the confidence of the early return taken when the discovery finds nothing
EarlyConfidence(e) == IF e = "code_quality" THEN 500 ELSE 300

\* the variant in which the experts extend one list they share
ExtendList_shared(e, hallucinations, issues) ==
    LET other == CHOOSE o \in DOMAIN ret.tasks : o # e
    IN  ret.tasks[other].hallucinations \o hallucinations \o issues

\* hallucinations.extend(issues): the list is a local variable of the call
ExtendList(e, hallucinations, issues) == hallucinations \o issues

InitConcurrent ==
    /\ expert \in Teams
    /\ project = EmptyProject
    /\ findings = <<>>
    /\ changes = <<>>
    /\ ret = NoCall
    /\ prev = NoCall

\* the project is set up before the tasks start
TeamSetUp ==
    /\ ret = NoCall
    /\ \/ /\ Cardinality(project.exists) < MaxCallArtifacts
          /\ \E e \in expert : \E path \in SamplePaths(e) : CreateArtifact(path)
       \/ /\ Cardinality(project.facts) < MaxCallFacts
          /\ \E e \in expert : \E f \in SampleFacts(e) : WriteContent(f[1], f[2])

\* the tasks are created: one detect_hallucinations(project_path) per expert
StartTasks ==
    /\ ret = NoCall
    /\ ret' = [op |-> "tasks",
               tasks |-> [e \in expert |-> [state |-> "running", pc |-> 0,
                                            hallucinations |-> <<>>]]]
    /\ UNCHANGED <<expert, project, findings, changes, prev>>

\* the task of expert e after its next step
AfterStep(e, t, p) ==
    IF PhaseRaises(e, t.pc, p)
    THEN [state |-> "raised", pc |-> t.pc, hallucinations |-> t.hallucinations]
    ELSE IF t.pc = 0
    THEN IF e # "security" /\ find_existing_data(e, p) = <<>>
         THEN [state |-> "returned", pc |-> 0, hallucinations |-> <<>>,
               confidence |-> EarlyConfidence(e)]
         ELSE [t EXCEPT !.pc = 1]
    ELSE LET extended == ExtendList(e, t.hallucinations, Phases(e, p)[t.pc])
         IN  IF t.pc = Len(Phases(e, p))
             THEN [state |-> "returned", pc |-> t.pc, hallucinations |-> extended,
                   confidence |-> calculate_confidence(extended)]
             ELSE [state |-> "running", pc |-> t.pc + 1, hallucinations |-> extended]

\* one task takes its next step
TaskStep(e) ==
    /\ ret.op = "tasks"
    /\ ret.tasks[e].state = "running"
    /\ ret' = [ret EXCEPT !.tasks[e] = AfterStep(e, ret.tasks[e], project)]
    /\ UNCHANGED <<expert, project, findings, changes, prev>>

NextConcurrent ==
    \/ TeamSetUp
    \/ StartTasks
    \/ \E e \in expert : TaskStep(e)

SpecConcurrent == InitConcurrent /\ [][NextConcurrent]_vars

\* C27: detect_hallucinations of several experts run concurrently over the
\* same unchanged project, in any interleaving of their steps, gives each
\* expert the result it returns when run alone.
C27_ConcurrentEqualsAlone ==
    ret.op = "tasks" =>
        \A e \in expert :
            LET t == ret.tasks[e]
            IN  /\ t.state = "raised" => detect_hallucinations_raises(e, project)
                /\ t.state = "returned" =>
                       /\ ~detect_hallucinations_raises(e, project)
                       /\ t.hallucinations = detect_hallucinations(e, project).hallucinations
                       /\ t.confidence = detect_hallucinations(e, project).confidence

\* both experts of a team returned findings
C27_Witness ==
    /\ ret.op = "tasks"
    /\ \A e \in expert : /\ ret.tasks[e].state = "returned"
                         /\ ret.tasks[e].hallucinations # <<>>

====
